---- MODULE Spec2Model ----
(***************************************************************************)
(* A model of naivesound/expr (src/expr.go): the tokenizer, the two-stack  *)
(* parser and the expression-tree evaluator, together with a caller that   *)
(* keeps one variable map, one function map and the trees Parse returned.  *)
(*                                                                         *)
(* Runes are one-character strings, a token is a sequence of runes.        *)
(* A Num is a float64.  The model keeps the values exact: a finite value   *)
(* is a reduced fraction n/d, and NaN and the two infinities are values of *)
(* their own.  Signed zero is not kept apart (no Eval can tell -0 from 0). *)
(* A negative value converted to uint, which Go leaves to the target, is   *)
(* what the build (arch) makes of it.  A NaN or an infinity converted to   *)
(* int64 and square roots that are not rational are outside the model's    *)
(* domain: Undefined stops the check instead of picking an outcome.        *)
(*                                                                         *)
(* The fields of every record are written in the order in which TLC keeps  *)
(* them (that of their first occurrence in the module), so that no record  *)
(* is reordered while two workers read it.                                 *)
(***************************************************************************)
EXTENDS Integers, Sequences, FiniteSets, TLC

VARIABLES
  vars,        \* the caller's variable map: name -> cell (an index of cells)
  cells,       \* the heap of varExpr cells: cell -> value
  funcs,       \* the caller's function map: name -> implementation
  envs,        \* the heap of call environments (one per Bind): env -> map
  trees,       \* the trees Parse has returned to the caller
  src,         \* the text handed to the Parse in progress (or last run)
  input,       \* Parse: the wrapped runes being tokenized
  pos,         \* tokenize: position (0-based) in input
  expectVal,   \* tokenize: a value is expected next
  tokens,      \* tokenize: tokens produced so far
  ti,          \* Parse: number of tokens consumed
  os,          \* Parse: operator stack
  es,          \* Parse: expression stack
  expectArgs,  \* Parse: a function name was just pushed
  pc,          \* "idle", "tokenize", "parse"
  err,         \* error of the last Parse ("none" if it returned a tree)
  result,      \* tree returned by the last Parse (Nil on error)
  ret,         \* what the last Eval returned
  evald,       \* index in trees of the tree the last Eval ran on (0: none)
  before,      \* history: the cells and environments the last Eval started from
  arch         \* the build: decides the conversions Go leaves to the target

vv == <<vars, cells, funcs, envs, trees, src, input, pos, expectVal, tokens,
           ti, os, es, expectArgs, pc, err, result, ret, evald, before, arch>>

-----------------------------------------------------------------------------
(* Runes *)

Digits == {"0", "1", "2", "3", "4", "5", "6", "7", "8", "9"}
Letters == {"a", "b", "c", "d", "e", "f", "g", "h", "i", "j", "k", "l", "m",
            "n", "o", "p", "q", "r", "s", "t", "u", "v", "w", "x", "y", "z"}
IsNumber(c) == c \in Digits
IsLetter(c) == c \in Letters
IsSpace(c) == c \in {" "}
\* the rune read past the end of the input (c = 0 in the source)
NUL == "NUL"
\* the rune U+221A (square root sign)
SQRT == "sqrt"

-----------------------------------------------------------------------------
(* Operator table *)

unaryMinus == 1
unaryLogicalNot == 2
unaryBitwiseNot == 3
unarySqrt == 4
multiply == 5
divide == 6
remainder == 7
plus == 8
minus == 9
shl == 10
shr == 11
lessThan == 12
lessOrEquals == 13
greaterThan == 14
greaterOrEquals == 15
equals == 16
notEquals == 17
bitwiseAnd == 18
bitwiseXor == 19
bitwiseOr == 20
logicalAnd == 21
logicalOr == 22
assign == 23

opsMap ==
  ( <<"-", "u">> :> unaryMinus @@ <<"!">> :> unaryLogicalNot
    @@ <<"~">> :> unaryBitwiseNot @@ <<SQRT>> :> unarySqrt
    @@ <<"*">> :> multiply @@ <<"/">> :> divide @@ <<"%">> :> remainder
    @@ <<"+">> :> plus @@ <<"-">> :> minus
    @@ <<"<", "<">> :> shl @@ <<">", ">">> :> shr
    @@ <<"<">> :> lessThan @@ <<"<", "=">> :> lessOrEquals
    @@ <<">">> :> greaterThan @@ <<">", "=">> :> greaterOrEquals
    @@ <<"=", "=">> :> equals @@ <<"!", "=">> :> notEquals
    @@ <<"&">> :> bitwiseAnd @@ <<"^">> :> bitwiseXor @@ <<"|">> :> bitwiseOr
    @@ <<"&", "&">> :> logicalAnd @@ <<"|", "|">> :> logicalOr
    @@ <<"=">> :> assign )

\* ops[name]: the zero value 0 for a name that is no key
ops(name) == IF name \in DOMAIN opsMap THEN opsMap[name] ELSE 0

isUnary(op) == op >= unaryMinus /\ op <= unarySqrt

\* isLeftAssoc with assign forgotten
isLeftAssocAll(op) == ~isUnary(op)

isLeftAssoc(op) == ~isUnary(op) /\ op # assign

-----------------------------------------------------------------------------
(* Num *)

Undefined == CHOOSE v \in {} : TRUE

Abs(i) == IF i < 0 THEN -i ELSE i

RECURSIVE Gcd(_, _)
Gcd(a, b) == IF b = 0 THEN a ELSE Gcd(b, a % b)

\* the finite value n/d (d # 0), reduced, with a positive denominator
Fin(n, d) ==
  LET g == Gcd(Abs(n), Abs(d))
      s == IF d < 0 THEN -1 ELSE 1
  IN [n |-> (s * n) \div g, d |-> (s * d) \div g, k |-> "fin"]

NumOf(i) == [n |-> i, d |-> 1, k |-> "fin"]
Zero == NumOf(0)
NaN == [n |-> 0, d |-> 1, k |-> "nan"]
\* n = 1: +Inf, n = -1: -Inf
Inf(s) == [n |-> s, d |-> 1, k |-> "inf"]

Sign(x) == IF x.n > 0 THEN 1 ELSE IF x.n < 0 THEN -1 ELSE 0

\* x == y on float64 (false when either is NaN)
NumEq(x, y) == x.k # "nan" /\ y.k # "nan" /\ x = y

\* x < y on float64 (false when either is NaN)
NumLt(x, y) ==
  /\ x.k # "nan" /\ y.k # "nan"
  /\ CASE x.k = "inf" -> x.n = -1 /\ y # x
       [] y.k = "inf" -> y.n = 1
       [] OTHER -> x.n * y.d < y.n * x.d

NumNeg(x) == IF x.k = "nan" THEN NaN ELSE [x EXCEPT !.n = -x.n]

NumAdd(x, y) ==
  CASE x.k = "nan" \/ y.k = "nan" -> NaN
    [] x.k = "inf" /\ y.k = "inf" -> IF x.n = y.n THEN x ELSE NaN
    [] x.k = "inf" -> x
    [] y.k = "inf" -> y
    [] OTHER -> Fin(x.n * y.d + y.n * x.d, x.d * y.d)

NumSub(x, y) == NumAdd(x, NumNeg(y))

NumMul(x, y) ==
  CASE x.k = "nan" \/ y.k = "nan" -> NaN
    [] x.k = "inf" \/ y.k = "inf" ->
         IF Sign(x) * Sign(y) = 0 THEN NaN ELSE Inf(Sign(x) * Sign(y))
    [] OTHER -> Fin(x.n * y.n, x.d * y.d)

\* x / y on float64, for y # 0 (the only use the source makes of it)
NumDiv(x, y) ==
  CASE x.k = "nan" \/ y.k = "nan" -> NaN
    [] x.k = "inf" -> IF y.k = "inf" THEN NaN ELSE Inf(Sign(x) * Sign(y))
    [] y.k = "inf" -> Zero
    [] OTHER -> Fin(x.n * y.d, x.d * y.n)

\* the integer nearest to p/q (q > 0), ties to the even one
RoundHalfEven(p, q) ==
  LET f == p \div q
      r == p - q * f
  IN IF 2 * r < q THEN f
     ELSE IF 2 * r > q THEN f + 1
     ELSE IF f % 2 = 0 THEN f ELSE f + 1

\* math.Remainder(x, y), the IEEE 754 remainder, for y # 0
MathRemainder(x, y) ==
  CASE x.k = "nan" \/ y.k = "nan" -> NaN
    [] x.k = "inf" -> NaN
    [] y.k = "inf" -> x
    [] OTHER ->
         LET q == Fin(x.n * y.d, x.d * y.n)
             n == RoundHalfEven(q.n, q.d)
         IN NumSub(x, NumMul(NumOf(n), y))

\* the r >= 0 with r * r = n, if there is one
HasISqrt(n) == \E r \in 0..n : r * r = n
ISqrt(n) == CHOOSE r \in 0..n : r * r = n

\* math.Sqrt(x)
MathSqrt(x) ==
  CASE x.k = "nan" -> NaN
    [] x.k = "inf" -> IF x.n = 1 THEN x ELSE NaN
    [] x.n < 0 -> NaN
    [] HasISqrt(x.n) /\ HasISqrt(x.d) -> Fin(ISqrt(x.n), ISqrt(x.d))
    [] OTHER -> Undefined

\* int64(x): truncation toward zero; implementation-dependent for NaN, Inf
Int64(x) ==
  IF x.k # "fin" THEN Undefined
  ELSE IF x.n >= 0 THEN x.n \div x.d ELSE -((-x.n) \div x.d)

IntBits == 64

\* uint(x), which the source uses as a shift count only: every count of 64
\* or more shifts alike, so such a count is given as 64.  For x <= -1 Go
\* leaves the result to the target: amd64 wraps it (a count above 2^63),
\* arm64 saturates it to 0.
Uint(x) ==
  IF x.k # "fin" THEN Undefined
  ELSE IF Int64(x) < 0 THEN (IF arch = "amd64" THEN IntBits ELSE 0)
  ELSE IF Int64(x) >= IntBits THEN IntBits ELSE Int64(x)

RECURSIVE Pow2(_)
Pow2(k) == IF k = 0 THEN 1 ELSE 2 * Pow2(k - 1)

\* a << k on int64 (no product of the model leaves the int64 range)
Shl(a, k) == IF k >= IntBits \/ a = 0 THEN 0 ELSE a * Pow2(k)

\* a >> k on int64: arithmetic shift
RECURSIVE Shr(_, _)
Shr(a, k) == IF k = 0 \/ a = 0 \/ a = -1 THEN a ELSE Shr(a \div 2, k - 1)

\* two's complement bitwise operators on int64 (a \div 2 floors, a % 2 is 0 or 1)
RECURSIVE BitAnd(_, _)
BitAnd(a, b) ==
  IF a = 0 \/ b = 0 THEN 0
  ELSE IF a = -1 THEN b
  ELSE IF b = -1 THEN a
  ELSE (a % 2) * (b % 2) + 2 * BitAnd(a \div 2, b \div 2)

BitNot(a) == -a - 1

BitOr(a, b) == BitNot(BitAnd(BitNot(a), BitNot(b)))

BitXor(a, b) == BitAnd(BitOr(a, b), BitNot(BitAnd(a, b)))

boolNum(b) == IF b THEN NumOf(1) ELSE NumOf(0)

-----------------------------------------------------------------------------
(* Expression trees *)

\* the nil Expr (a boundary on the expression stack; no tree)
Nil == [k |-> "nil"]
constExpr(value) == [k |-> "const", value |-> value]
\* a *varExpr: the pointer is the index of the cell
varExpr(cell) == [k |-> "var", cell |-> cell]
newUnaryExpr(op, arg) == [op |-> op, k |-> "unary", arg |-> arg]
binaryExpr(op, a, b) == [op |-> op, a |-> a, b |-> b, k |-> "binary"]
\* a *simpleFunc: eval names the EvalFunc, env is the index of its FuncEnv
simpleFunc(eval, args, env) == [k |-> "func", eval |-> eval, args |-> args, env |-> env]

\* FuncEnv: a map from string to Num; a key that is absent reads as 0
EmptyEnv == [key \in {} |-> Zero]
EnvGet(env, key) == IF key \in DOMAIN env THEN env[key] ELSE Zero
EnvPut(env, key, v) == [x \in DOMAIN env \cup {key} |-> IF x = key THEN v ELSE env[x]]

\* what an Eval leaves: the value returned, the cells and environments after
\* it, and whether it panicked (then v is meaningless)
Done(v, cs, ev) == [cells |-> cs, envs |-> ev, v |-> v, panic |-> FALSE]
Panic(cs, ev) == [cells |-> cs, envs |-> ev, v |-> Zero, panic |-> TRUE]

RECURSIVE Eval(_, _, _)
RECURSIVE EvalArgs(_, _, _, _, _)

\* args[0].Eval(), ..., args[n-1].Eval() in this order, for n <= Len(args):
\* the values returned and the state left; a panic if there are fewer than n
EvalArgs(args, n, vals, cs, ev) ==
  IF Len(vals) = n THEN [cells |-> cs, envs |-> ev, panic |-> FALSE, vals |-> vals]
  ELSE IF Len(vals) >= Len(args)
       THEN [cells |-> cs, envs |-> ev, panic |-> TRUE, vals |-> vals]
  ELSE LET r == Eval(args[Len(vals) + 1], cs, ev)
       IN IF r.panic THEN [cells |-> r.cells, envs |-> r.envs, panic |-> TRUE, vals |-> vals]
          ELSE EvalArgs(args, n, Append(vals, r.v), r.cells, r.envs)

\* a grouping that evaluates its last argument and no other
onlyLastArgFunc(e, cs, ev) ==
  IF e.args = <<>> THEN Done(Zero, cs, ev) ELSE Eval(e.args[Len(e.args)], cs, ev)

\* lastArgFunc: evaluates every argument in order, returns the last value
lastArgFunc(e, cs, ev) ==
  LET r == EvalArgs(e.args, Len(e.args), <<>>, cs, ev)
  IN IF r.panic THEN Panic(r.cells, r.envs)
     ELSE Done(IF r.vals = <<>> THEN Zero ELSE r.vals[Len(r.vals)], r.cells, r.envs)

\* the caller's "add3": args[0].Eval() + args[1].Eval() + args[2].Eval()
add3Func(e, cs, ev) ==
  LET r == EvalArgs(e.args, 3, <<>>, cs, ev)
  IN IF r.panic THEN Panic(r.cells, r.envs)
     ELSE Done(NumAdd(NumAdd(r.vals[1], r.vals[2]), r.vals[3]), r.cells, r.envs)

\* a plusone that counts its calls in its environment and adds the count
plusoneCounting(e, cs, ev) ==
  LET r == EvalArgs(e.args, 1, <<>>, cs, ev)
  IN IF r.panic THEN Panic(r.cells, r.envs)
     ELSE LET n == NumAdd(EnvGet(r.envs[e.env], "n"), NumOf(1))
          IN Done(NumAdd(r.vals[1], n), r.cells, [r.envs EXCEPT ![e.env] = EnvPut(@, "n", n)])

\* the caller's "plusone": args[0].Eval() + 1
plusoneFunc(e, cs, ev) ==
  LET r == EvalArgs(e.args, 1, <<>>, cs, ev)
  IN IF r.panic THEN Panic(r.cells, r.envs)
     ELSE Done(NumAdd(r.vals[1], NumOf(1)), r.cells, r.envs)

\* the caller's accumulator:
\* env["accum"] = env["accum"] + args[0].Eval(); return env["accum"]
accumFunc(e, cs, ev) ==
  LET r == EvalArgs(e.args, 1, <<>>, cs, ev)
  IN IF r.panic THEN Panic(r.cells, r.envs)
     ELSE LET sum == NumAdd(EnvGet(r.envs[e.env], "accum"), r.vals[1])
          IN Done(sum, r.cells, [r.envs EXCEPT ![e.env] = EnvPut(@, "accum", sum)])

\* simpleFunc.Eval: e.eval(e.args, e.env)
simpleFuncEval(e, cs, ev) ==
  CASE e.eval = "last" -> lastArgFunc(e, cs, ev)
    [] e.eval = "add3" -> add3Func(e, cs, ev)
    [] e.eval = "plusone" -> plusoneFunc(e, cs, ev)
    [] e.eval = "accum" -> accumFunc(e, cs, ev)

\* a unary minus that leaves its operand as it is
unaryApplyPlain(op, x) ==
  CASE op = unaryMinus -> x
    [] op = unaryBitwiseNot -> NumOf(BitNot(Int64(x)))
    [] op = unaryLogicalNot -> boolNum(NumEq(x, Zero))
    [] op = unarySqrt -> MathSqrt(x)

unaryApply(op, x) ==
  CASE op = unaryMinus -> NumNeg(x)
    [] op = unaryBitwiseNot -> NumOf(BitNot(Int64(x)))
    [] op = unaryLogicalNot -> boolNum(NumEq(x, Zero))
    [] op = unarySqrt -> MathSqrt(x)

\* the operators that evaluate e.a, then e.b, and combine the two values
binaryApply(op, x, y) ==
  CASE op = multiply -> NumMul(x, y)
    [] op = plus -> NumAdd(x, y)
    [] op = minus -> NumSub(x, y)
    [] op = shl -> NumOf(Shl(Int64(x), Uint(y)))
    [] op = shr -> NumOf(Shr(Int64(x), Uint(y)))
    [] op = lessThan -> boolNum(NumLt(x, y))
    [] op = lessOrEquals -> boolNum(NumLt(x, y) \/ NumEq(x, y))
    [] op = greaterThan -> boolNum(NumLt(y, x))
    [] op = greaterOrEquals -> boolNum(NumLt(y, x) \/ NumEq(x, y))
    [] op = equals -> boolNum(NumEq(x, y))
    [] op = notEquals -> boolNum(~NumEq(x, y))
    [] op = bitwiseAnd -> NumOf(BitAnd(Int64(x), Int64(y)))
    [] op = bitwiseXor -> NumOf(BitXor(Int64(x), Int64(y)))
    [] op = bitwiseOr -> NumOf(BitOr(Int64(x), Int64(y)))

\* binaryExpr.Eval for multiply, plus, minus, the shifts, the comparisons and
\* the bitwise operators: e.a.Eval(), then e.b.Eval()
evalLeftRight(e, cs, ev) ==
  LET ra == Eval(e.a, cs, ev)
  IN IF ra.panic THEN ra
     ELSE LET rb == Eval(e.b, ra.cells, ra.envs)
          IN IF rb.panic THEN rb
             ELSE Done(binaryApply(e.op, ra.v, rb.v), rb.cells, rb.envs)

\* divide and remainder as float64 computes them, with no test of the divisor
evalDivRemIEEE(e, cs, ev) ==
  LET rb == Eval(e.b, cs, ev)
  IN IF rb.panic THEN rb
     ELSE LET ra == Eval(e.a, rb.cells, rb.envs)
          IN IF ra.panic THEN ra
             ELSE Done(IF NumEq(rb.v, Zero)
                       THEN IF e.op = divide /\ ra.v.k # "nan" /\ ~NumEq(ra.v, Zero)
                            THEN Inf(Sign(ra.v)) ELSE NaN
                       ELSE IF e.op = divide THEN NumDiv(ra.v, rb.v)
                       ELSE MathRemainder(ra.v, rb.v), ra.cells, ra.envs)

\* divide, remainder: tmp := e.b.Eval(); if tmp != 0 { e.a.Eval() ... }
evalDivRem(e, cs, ev) ==
  LET rb == Eval(e.b, cs, ev)
  IN IF rb.panic THEN rb
     ELSE IF NumEq(rb.v, Zero) THEN Done(Zero, rb.cells, rb.envs)
     ELSE LET ra == Eval(e.a, rb.cells, rb.envs)
          IN IF ra.panic THEN ra
             ELSE Done(IF e.op = divide THEN NumDiv(ra.v, rb.v)
                       ELSE MathRemainder(ra.v, rb.v), ra.cells, ra.envs)

\* logicalAnd: boolNum(e.a.Eval() != 0 && e.b.Eval() != 0)
evalLogicalAnd(e, cs, ev) ==
  LET ra == Eval(e.a, cs, ev)
  IN IF ra.panic THEN ra
     ELSE IF NumEq(ra.v, Zero) THEN Done(boolNum(FALSE), ra.cells, ra.envs)
     ELSE LET rb == Eval(e.b, ra.cells, ra.envs)
          IN IF rb.panic THEN rb
             ELSE Done(boolNum(~NumEq(rb.v, Zero)), rb.cells, rb.envs)

\* logicalOr: boolNum(e.a.Eval() != 0 || e.b.Eval() != 0)
evalLogicalOr(e, cs, ev) ==
  LET ra == Eval(e.a, cs, ev)
  IN IF ra.panic THEN ra
     ELSE IF ~NumEq(ra.v, Zero) THEN Done(boolNum(TRUE), ra.cells, ra.envs)
     ELSE LET rb == Eval(e.b, ra.cells, ra.envs)
          IN IF rb.panic THEN rb
             ELSE Done(boolNum(~NumEq(rb.v, Zero)), rb.cells, rb.envs)

\* assign: res = e.b.Eval(); e.a.(*varExpr).Set(res)
\* (the type assertion panics when e.a is no *varExpr)
evalAssign(e, cs, ev) ==
  LET rb == Eval(e.b, cs, ev)
  IN IF rb.panic THEN rb
     ELSE IF e.a.k # "var" THEN Panic(rb.cells, rb.envs)
     ELSE Done(rb.v, [rb.cells EXCEPT ![e.a.cell] = rb.v], rb.envs)

binaryExprEval(e, cs, ev) ==
  CASE e.op \in {divide, remainder} -> evalDivRem(e, cs, ev)
    [] e.op = logicalAnd -> evalLogicalAnd(e, cs, ev)
    [] e.op = logicalOr -> evalLogicalOr(e, cs, ev)
    [] e.op = assign -> evalAssign(e, cs, ev)
    [] OTHER -> evalLeftRight(e, cs, ev)

unaryExprEval(e, cs, ev) ==
  LET r == Eval(e.arg, cs, ev)
  IN IF r.panic THEN r ELSE Done(unaryApply(e.op, r.v), r.cells, r.envs)

\* Expr.Eval, from the cells cs and the environments ev
Eval(e, cs, ev) ==
  CASE e.k = "const" -> Done(e.value, cs, ev)
    [] e.k = "var" -> Done(cs[e.cell], cs, ev)
    [] e.k = "unary" -> unaryExprEval(e, cs, ev)
    [] e.k = "binary" -> binaryExprEval(e, cs, ev)
    [] e.k = "func" -> simpleFuncEval(e, cs, ev)

-----------------------------------------------------------------------------
(* tokenize *)

ErrBadCall == "function call expected"
ErrBadAssignment == "variable expected in assignment"
ErrBadOp == "unknown operator or function"
ErrOperandMissing == "missing operand"
ErrOperatorMissing == "missing operator"
ErrParen == "parenthesis mismatch"
\* a nil error
NoErr == "none"

\* input[p] for the 0-based position p, and 0 past the end
RuneAt(inp, p) == IF p < Len(inp) THEN inp[p + 1] ELSE NUL

\* the loop of the number branch: the end of the run of digits and '.'
RECURSIVE scanNumber(_, _)
scanNumber(inp, p) ==
  LET c == RuneAt(inp, p)
  IN IF (c = "." \/ IsNumber(c)) /\ p < Len(inp) THEN scanNumber(inp, p + 1) ELSE p

\* the loop of the letter branch: the end of the run of letters, digits, '_'
RECURSIVE scanIdent(_, _)
scanIdent(inp, p) ==
  LET c == RuneAt(inp, p)
  IN IF IsLetter(c) \/ IsNumber(c) \/ (c = "_" /\ p < Len(inp))
     THEN scanIdent(inp, p + 1) ELSE p

\* the condition of the loop of the operator branch
isOpRune(c) ==
  /\ ~IsLetter(c) /\ ~IsNumber(c) /\ ~IsSpace(c)
  /\ c \notin {"_", "(", ")", ",", "-"}

\* a loop that stops at the first lexeme it has
scanOpShortest(inp, p, tok, lastOp) ==
  LET c == RuneAt(inp, p)
  IN IF <<c>> \in DOMAIN opsMap
     THEN [pos |-> p + 1, tok |-> <<c>>, lastOp |-> <<c>>]
     ELSE [pos |-> p + 1, tok |-> <<c>>, lastOp |-> <<>>]

\* the loop of the operator branch, from position p with tok and lastOp
RECURSIVE scanOp(_, _, _, _)
scanOp(inp, p, tok, lastOp) ==
  LET c == RuneAt(inp, p)
  IN IF ~(isOpRune(c) /\ p < Len(inp)) THEN [pos |-> p, tok |-> tok, lastOp |-> lastOp]
     ELSE IF Append(tok, c) \in DOMAIN opsMap
          THEN scanOp(inp, p + 1, Append(tok, c), Append(tok, c))
     ELSE IF lastOp = <<>> THEN scanOp(inp, p + 1, Append(tok, c), lastOp)
     ELSE [pos |-> p, tok |-> tok, lastOp |-> lastOp]

\* an iteration that takes a number or an identifier wherever it stands
tokenizeIterAnywhere(inp, p, ev) ==
  LET c == RuneAt(inp, p)
      out(tok, q, e) == [pos |-> q, expectVal |-> e, err |-> NoErr, tok |-> tok]
      fail(e) == [pos |-> p, expectVal |-> ev, err |-> e, tok |-> <<>>]
  IN CASE IsSpace(c) -> out(<<>>, p + 1, ev)
       [] IsNumber(c) -> out(SubSeq(inp, p + 1, scanNumber(inp, p)), scanNumber(inp, p), FALSE)
       [] c = "-" -> out(IF ev THEN <<"-", "u">> ELSE <<"-">>, p + 1, TRUE)
       [] IsLetter(c) -> out(SubSeq(inp, p + 1, scanIdent(inp, p)), scanIdent(inp, p), FALSE)
       [] c \in {"(", ")", ","} -> out(<<c>>, p + 1, c \in {"(", ","})
       [] OTHER ->
            LET r == scanOp(inp, p, <<>>, <<>>)
            IN IF r.lastOp = <<>> THEN fail(ErrBadOp) ELSE out(r.tok, r.pos, TRUE)

\* an iteration that makes the binary lexeme of every '-'
tokenizeIterBinaryMinus(inp, p, ev) ==
  LET c == RuneAt(inp, p)
      out(tok, q, e) == [pos |-> q, expectVal |-> e, err |-> NoErr, tok |-> tok]
      fail(e) == [pos |-> p, expectVal |-> ev, err |-> e, tok |-> <<>>]
  IN CASE IsSpace(c) -> out(<<>>, p + 1, ev)
       [] IsNumber(c) ->
            IF ~ev THEN fail(ErrOperandMissing)
            ELSE out(SubSeq(inp, p + 1, scanNumber(inp, p)), scanNumber(inp, p), FALSE)
       [] c = "-" -> out(<<"-">>, p + 1, TRUE)
       [] IsLetter(c) ->
            IF ~ev THEN fail(ErrOperandMissing)
            ELSE out(SubSeq(inp, p + 1, scanIdent(inp, p)), scanIdent(inp, p), FALSE)
       [] c \in {"(", ")", ","} -> out(<<c>>, p + 1, c \in {"(", ","})
       [] OTHER ->
            LET r == scanOp(inp, p, <<>>, <<>>)
            IN IF r.lastOp = <<>> THEN fail(ErrBadOp) ELSE out(r.tok, r.pos, TRUE)

\* an iteration that does not move past whitespace
tokenizeIterNoSkip(inp, p, ev) ==
  LET c == RuneAt(inp, p)
      out(tok, q, e) == [pos |-> q, expectVal |-> e, err |-> NoErr, tok |-> tok]
      fail(e) == [pos |-> p, expectVal |-> ev, err |-> e, tok |-> <<>>]
  IN CASE IsSpace(c) -> out(<<>>, p, ev)
       [] IsNumber(c) ->
            IF ~ev THEN fail(ErrOperandMissing)
            ELSE out(SubSeq(inp, p + 1, scanNumber(inp, p)), scanNumber(inp, p), FALSE)
       [] c = "-" -> out(IF ev THEN <<"-", "u">> ELSE <<"-">>, p + 1, TRUE)
       [] IsLetter(c) ->
            IF ~ev THEN fail(ErrOperandMissing)
            ELSE out(SubSeq(inp, p + 1, scanIdent(inp, p)), scanIdent(inp, p), FALSE)
       [] c \in {"(", ")", ","} -> out(<<c>>, p + 1, c \in {"(", ","})
       [] OTHER ->
            LET r == scanOp(inp, p, <<>>, <<>>)
            IN IF r.lastOp = <<>> THEN fail(ErrBadOp) ELSE out(r.tok, r.pos, TRUE)

\* one iteration of tokenize's loop at position p with the flag ev:
\* the token it appends (<<>>: none), the position and the flag after it, or
\* the error it returns
tokenizeIter(inp, p, ev) ==
  LET c == RuneAt(inp, p)
      out(tok, q, e) == [pos |-> q, expectVal |-> e, err |-> NoErr, tok |-> tok]
      fail(e) == [pos |-> p, expectVal |-> ev, err |-> e, tok |-> <<>>]
  IN CASE IsSpace(c) -> out(<<>>, p + 1, ev)
       [] IsNumber(c) ->
            IF ~ev THEN fail(ErrOperandMissing)
            ELSE out(SubSeq(inp, p + 1, scanNumber(inp, p)), scanNumber(inp, p), FALSE)
       [] c = "-" -> out(IF ev THEN <<"-", "u">> ELSE <<"-">>, p + 1, TRUE)
       [] IsLetter(c) ->
            IF ~ev THEN fail(ErrOperandMissing)
            ELSE out(SubSeq(inp, p + 1, scanIdent(inp, p)), scanIdent(inp, p), FALSE)
       [] c \in {"(", ")", ","} -> out(<<c>>, p + 1, c \in {"(", ","})
       [] OTHER ->
            LET r == scanOp(inp, p, <<>>, <<>>)
            IN IF r.lastOp = <<>> THEN fail(ErrBadOp) ELSE out(r.tok, r.pos, TRUE)

-----------------------------------------------------------------------------
(* Parse *)

DigitVal == [c \in Digits |->
  CASE c = "0" -> 0 [] c = "1" -> 1 [] c = "2" -> 2 [] c = "3" -> 3 [] c = "4" -> 4
    [] c = "5" -> 5 [] c = "6" -> 6 [] c = "7" -> 7 [] c = "8" -> 8 [] c = "9" -> 9]

\* the number written by the digits of tok, its '.' left out
RECURSIVE decimalOf(_, _)
decimalOf(tok, acc) ==
  IF tok = <<>> THEN acc
  ELSE IF Head(tok) = "." THEN decimalOf(Tail(tok), acc)
  ELSE decimalOf(Tail(tok), 10 * acc + DigitVal[Head(tok)])

RECURSIVE Pow10(_)
Pow10(k) == IF k = 0 THEN 1 ELSE 10 * Pow10(k - 1)

\* strconv.ParseFloat(token, 64) on the tokens tokenize can produce: decimal
\* digits with at most one '.', and the words for the infinities and NaN
ParseFloat(tok) ==
  LET dots == {i \in 1..Len(tok) : tok[i] = "."}
      digs == {i \in 1..Len(tok) : tok[i] \in Digits}
  IN CASE tok \in {<<"i", "n", "f">>, <<"i", "n", "f", "i", "n", "i", "t", "y">>} ->
            [value |-> Inf(1), ok |-> TRUE]
       [] tok = <<"n", "a", "n">> -> [value |-> NaN, ok |-> TRUE]
       [] /\ digs # {} /\ dots \cup digs = 1..Len(tok) /\ Cardinality(dots) <= 1 ->
            [value |-> Fin(decimalOf(tok, 0),
                           IF dots = {} THEN 1
                           ELSE Pow10(Len(tok) - (CHOOSE i \in dots : TRUE))),
             ok |-> TRUE]
       [] OTHER -> [value |-> Zero, ok |-> FALSE]

\* stringStack.Peek: "" on an empty stack
Peek(ss) == IF ss = <<>> THEN <<>> ELSE ss[Len(ss)]
\* exprStack.Peek: nil on an empty stack
PeekExpr(stack) == IF stack = <<>> THEN Nil ELSE stack[Len(stack)]
\* Pop leaves an empty stack empty
PopRest(stack) == IF stack = <<>> THEN <<>> ELSE SubSeq(stack, 1, Len(stack) - 1)

\* arguments collected in the order they are popped, the last one first
RECURSIVE parseArgsReversed(_, _)
parseArgsReversed(stack, args) ==
  IF Len(stack) > 0 /\ PeekExpr(stack) # Nil
  THEN parseArgsReversed(PopRest(stack), args \o <<PeekExpr(stack)>>)
  ELSE [es |-> PopRest(stack), args |-> args]

\* a parseArgs that leaves the boundary it stops at on the stack
RECURSIVE parseArgsKeepBoundary(_, _)
parseArgsKeepBoundary(stack, args) ==
  IF Len(stack) > 0 /\ PeekExpr(stack) # Nil
  THEN parseArgsKeepBoundary(PopRest(stack), <<PeekExpr(stack)>> \o args)
  ELSE [es |-> stack, args |-> args]

\* parseArgs: the expressions above the topmost nil, in stack order, and the
\* stack without them and without that nil
RECURSIVE parseArgs(_, _)
parseArgs(stack, args) ==
  IF Len(stack) > 0 /\ PeekExpr(stack) # Nil
  THEN parseArgs(PopRest(stack), <<PeekExpr(stack)>> \o args)
  ELSE [es |-> PopRest(stack), args |-> args]

\* a Bind that gives every call the one environment made first
BindShared(eval, args, ev) ==
  [envs |-> IF ev = <<>> THEN <<EmptyEnv>> ELSE ev, expr |-> simpleFunc(eval, args, 1)]

\* funcBinder.Bind: a simpleFunc with a new, empty environment
Bind(eval, args, ev) ==
  [envs |-> Append(ev, EmptyEnv), expr |-> simpleFunc(eval, args, Len(ev) + 1)]

\* a newBinaryExpr that does not look at the left operand of '='
newBinaryExprUnchecked(op, a, b) == [err |-> NoErr, expr |-> binaryExpr(op, a, b)]

\* a newBinaryExpr that reports a bad target of '=' as a missing operator
newBinaryExprOperatorMissing(op, a, b) ==
  IF op = assign /\ a.k # "var" THEN [err |-> ErrOperatorMissing, expr |-> Nil]
  ELSE [err |-> NoErr, expr |-> binaryExpr(op, a, b)]

\* newBinaryExpr
newBinaryExpr(op, a, b) ==
  IF op = assign /\ a.k # "var" THEN [err |-> ErrBadAssignment, expr |-> Nil]
  ELSE [err |-> NoErr, expr |-> binaryExpr(op, a, b)]

\* bind(name, funcs, stack): the expression or the error it returns, the stack
\* and the environments it leaves
bind(name, fs, stack, ev) ==
  LET mk(e, er, st, en) == [envs |-> en, es |-> st, err |-> er, expr |-> e]
  IN IF name \in DOMAIN fs
     THEN LET pa == parseArgs(stack, <<>>)
              b == Bind(fs[name], pa.args, ev)
          IN mk(b.expr, NoErr, pa.es, b.envs)
     ELSE IF name \in DOMAIN opsMap
     THEN IF isUnary(opsMap[name])
          THEN IF PeekExpr(stack) = Nil THEN mk(Nil, ErrOperandMissing, stack, ev)
               ELSE mk(newUnaryExpr(opsMap[name], PeekExpr(stack)), NoErr, PopRest(stack), ev)
          ELSE LET b == PeekExpr(stack)
                   a == PeekExpr(PopRest(stack))
                   rest == PopRest(PopRest(stack))
               IN IF a = Nil \/ b = Nil THEN mk(Nil, ErrOperandMissing, rest, ev)
                  ELSE LET n == newBinaryExpr(opsMap[name], a, b)
                       IN mk(n.expr, n.err, rest, ev)
     ELSE mk(Nil, ErrBadOp, stack, ev)

\* what a step of Parse leaves: the two stacks, the environments, the error
Stacks(o, e, ev, er) == [envs |-> ev, os |-> o, es |-> e, err |-> er]

\* for len(os) > 0 && os.Peek() != "(" { bind(os.Pop()) ...; es.Push(expr) }
RECURSIVE foldToParen(_, _, _, _)
foldToParen(o, e, fs, ev) ==
  IF Len(o) > 0 /\ Peek(o) # <<"(">>
  THEN LET b == bind(Peek(o), fs, e, ev)
       IN IF b.err # NoErr THEN Stacks(PopRest(o), b.es, b.envs, b.err)
          ELSE foldToParen(PopRest(o), Append(b.es, b.expr), fs, b.envs)
  ELSE Stacks(o, e, ev, NoErr)

\* shouldBind with the two ranks compared the wrong way round
shouldBindReversed(op, o2) ==
  ops(o2) # 0 /\ ((isLeftAssoc(op) /\ op <= ops(o2)) \/ op < ops(o2))

\* the condition of the operator loop for the incoming op and the stacked o2
shouldBind(op, o2) ==
  ops(o2) # 0 /\ ((isLeftAssoc(op) /\ op >= ops(o2)) \/ op > ops(o2))

\* for ops[o2] != 0 && ... { bind(o2) ...; es.Push(expr); os.Pop(); o2 = os.Peek() }
RECURSIVE foldOps(_, _, _, _, _)
foldOps(op, o, e, fs, ev) ==
  IF shouldBind(op, Peek(o))
  THEN LET b == bind(Peek(o), fs, e, ev)
       IN IF b.err # NoErr THEN Stacks(o, b.es, b.envs, b.err)
          ELSE foldOps(op, PopRest(o), Append(b.es, b.expr), fs, b.envs)
  ELSE Stacks(o, e, ev, NoErr)

\* a ")" branch that takes an empty pair of parentheses for a missing operand
closeParenOperandRequired(o, e, fs, ev) ==
  LET f == foldToParen(o, e, fs, ev)
      o1 == PopRest(f.os)
  IN IF f.err # NoErr THEN f
     ELSE IF Len(f.os) = 0 THEN Stacks(f.os, f.es, f.envs, ErrParen)
     ELSE IF parseArgs(f.es, <<>>).args = <<>>
     THEN Stacks(o1, f.es, f.envs, ErrOperandMissing)
     ELSE IF Len(o1) > 0 /\ Peek(o1) \in DOMAIN fs
     THEN LET b == bind(Peek(o1), fs, f.es, f.envs)
          IN IF b.err # NoErr THEN Stacks(PopRest(o1), b.es, b.envs, b.err)
             ELSE Stacks(PopRest(o1), Append(b.es, b.expr), b.envs, NoErr)
     ELSE LET pa == parseArgs(f.es, <<>>)
              b == Bind("last", pa.args, f.envs)
          IN Stacks(o1, Append(pa.es, b.expr), b.envs, NoErr)

\* the ")" branch
closeParen(o, e, fs, ev) ==
  LET f == foldToParen(o, e, fs, ev)
      o1 == PopRest(f.os)
  IN IF f.err # NoErr THEN f
     ELSE IF Len(f.os) = 0 THEN Stacks(f.os, f.es, f.envs, ErrParen)
     ELSE IF Len(o1) > 0 /\ Peek(o1) \in DOMAIN fs
     THEN LET b == bind(Peek(o1), fs, f.es, f.envs)
          IN IF b.err # NoErr THEN Stacks(PopRest(o1), b.es, b.envs, b.err)
             ELSE Stacks(PopRest(o1), Append(b.es, b.expr), b.envs, NoErr)
     ELSE LET pa == parseArgs(f.es, <<>>)
              b == Bind("last", pa.args, f.envs)
          IN Stacks(o1, Append(pa.es, b.expr), b.envs, NoErr)

\* the "," branch
comma(o, e, fs, ev) ==
  LET f == foldToParen(o, e, fs, ev)
  IN IF f.err # NoErr THEN f
     ELSE IF Len(f.os) = 0 THEN Stacks(f.os, f.es, f.envs, ErrParen)
     ELSE f

\* the operator branch
operator(token, o, e, fs, ev) ==
  LET f == foldOps(opsMap[token], o, e, fs, ev)
  IN IF f.err # NoErr THEN f ELSE Stacks(Append(f.os, token), f.es, f.envs, NoErr)

\* the loop after the last token: for len(os) > 0 { op := os.Pop() ... }
RECURSIVE foldAll(_, _, _, _)
foldAll(o, e, fs, ev) ==
  IF Len(o) > 0
  THEN IF Peek(o) \in {<<"(">>, <<")">>} THEN Stacks(PopRest(o), e, ev, ErrParen)
       ELSE LET b == bind(Peek(o), fs, e, ev)
            IN IF b.err # NoErr THEN Stacks(PopRest(o), b.es, b.envs, b.err)
               ELSE foldAll(PopRest(o), Append(b.es, b.expr), fs, b.envs)
  ELSE Stacks(o, e, ev, NoErr)

-----------------------------------------------------------------------------
(* The caller and the steps of Parse *)

\* a lookup that is never made: every occurrence gets a new cell, which
\* takes the place of the entry in the map
variableFresh(token, vs, cs) ==
  [vars |-> (token :> (Len(cs) + 1)) @@ vs,
   cells |-> Append(cs, Zero),
   expr |-> varExpr(Len(cs) + 1)]

\* a lookup that clears the cell it finds
variableReset(token, vs, cs) ==
  IF token \in DOMAIN vs
  THEN [vars |-> vs, cells |-> [cs EXCEPT ![vs[token]] = Zero], expr |-> varExpr(vs[token])]
  ELSE [vars |-> (token :> (Len(cs) + 1)) @@ vs,
        cells |-> Append(cs, Zero),
        expr |-> varExpr(Len(cs) + 1)]

\* the variable branch: the cell the map holds for the token, or a new cell
\* of value 0 that is put in the map; the cell is what goes on the stack
variable(token, vs, cs) ==
  IF token \in DOMAIN vs
  THEN [vars |-> vs, cells |-> cs, expr |-> varExpr(vs[token])]
  ELSE [vars |-> (token :> (Len(cs) + 1)) @@ vs,
        cells |-> Append(cs, Zero),
        expr |-> varExpr(Len(cs) + 1)]

\* Parse returns err (and no tree): nothing of the call is left but the
\* variables it inserted
ParseFails(e) ==
  /\ pc' = "idle"
  /\ err' = e
  /\ result' = Nil
  /\ UNCHANGED <<trees, src, input, pos, expectVal, tokens, ti, os, es, expectArgs>>

\* the caller calls Parse(s, vars, funcs): the stacks are made, the input is
\* wrapped in parentheses and tokenize starts
ParseCall(s) ==
  /\ pc = "idle"
  /\ src' = s
  /\ input' = <<"(">> \o s \o <<")">>
  /\ pos' = 0
  /\ expectVal' = TRUE
  /\ tokens' = <<>>
  /\ ti' = 0
  /\ os' = <<>>
  /\ es' = <<>>
  /\ expectArgs' = FALSE
  /\ pc' = "tokenize"
  /\ err' = NoErr
  /\ result' = Nil
  /\ UNCHANGED <<vars, cells, funcs, envs, trees, ret, evald, before, arch>>

\* one iteration of the loop of tokenize; after the last one Parse goes on
\* with the tokens
TokenizeStep ==
  /\ pc = "tokenize"
  /\ pos < Len(input)
  /\ LET r == tokenizeIter(input, pos, expectVal)
     IN IF r.err # NoErr
        THEN /\ ParseFails(r.err)
        ELSE /\ pos' = r.pos
             /\ expectVal' = r.expectVal
             /\ tokens' = IF r.tok = <<>> THEN tokens ELSE Append(tokens, r.tok)
             /\ pc' = IF r.pos < Len(input) THEN "tokenize" ELSE "parse"
             /\ UNCHANGED <<trees, src, input, ti, os, es, expectArgs, err, result>>
  /\ UNCHANGED <<vars, cells, funcs, envs, ret, evald, before, arch>>

\* the body of Parse's loop for one token
ParseToken ==
  /\ pc = "parse"
  /\ ti < Len(tokens)
  /\ LET token == tokens[ti + 1]
         go(o, e, ea) ==
           /\ os' = o /\ es' = e /\ expectArgs' = ea
           /\ ti' = ti + 1
           /\ UNCHANGED <<trees, src, input, pos, expectVal, tokens, pc, err, result>>
         step(r, ea) ==
           /\ envs' = r.envs
           /\ UNCHANGED <<vars, cells>>
           /\ IF r.err # NoErr THEN ParseFails(r.err) ELSE go(r.os, r.es, ea)
     IN CASE token = <<"(">> ->
               /\ go(Append(os, token), Append(es, Nil), FALSE)
               /\ UNCHANGED <<vars, cells, envs>>
          [] token # <<"(">> /\ expectArgs ->
               /\ ParseFails(ErrBadCall)
               /\ UNCHANGED <<vars, cells, envs>>
          [] token # <<"(">> /\ ~expectArgs ->
               CASE token = <<")">> -> step(closeParen(os, es, funcs, envs), expectArgs)
                 [] token # <<")">> /\ ParseFloat(token).ok ->
                      /\ go(os, Append(es, constExpr(ParseFloat(token).value)), expectArgs)
                      /\ UNCHANGED <<vars, cells, envs>>
                 [] token # <<")">> /\ ~ParseFloat(token).ok ->
                      CASE token \in DOMAIN funcs ->
                             /\ go(Append(os, token), es, TRUE)
                             /\ UNCHANGED <<vars, cells, envs>>
                        [] token \notin DOMAIN funcs /\ token = <<",">> ->
                             step(comma(os, es, funcs, envs), expectArgs)
                        [] token \notin DOMAIN funcs /\ token # <<",">>
                             /\ token \in DOMAIN opsMap ->
                             step(operator(token, os, es, funcs, envs), expectArgs)
                        [] OTHER ->
                             LET r == variable(token, vars, cells)
                             IN /\ vars' = r.vars
                                /\ cells' = r.cells
                                /\ go(os, Append(es, r.expr), expectArgs)
                                /\ UNCHANGED envs
  /\ UNCHANGED <<funcs, ret, evald, before, arch>>

\* after the last token: the operators left are bound and Parse returns
ParseReturn ==
  /\ pc = "parse"
  /\ ti = Len(tokens)
  /\ LET f == foldAll(os, es, funcs, envs)
         e == IF Len(f.es) = 0 THEN constExpr(Zero) ELSE PeekExpr(f.es)
     IN /\ envs' = f.envs
        /\ IF f.err # NoErr THEN ParseFails(f.err)
           ELSE /\ pc' = "idle"
                /\ err' = NoErr
                /\ result' = e
                /\ trees' = Append(trees, [src |-> src, e |-> e])
                /\ os' = f.os
                /\ es' = PopRest(f.es)
                /\ UNCHANGED <<src, input, pos, expectVal, tokens, ti, expectArgs>>
  /\ UNCHANGED <<vars, cells, funcs, ret, evald, before, arch>>

\* the caller calls Eval on the i-th tree it holds
EvalCall(i) ==
  /\ pc = "idle"
  /\ i \in 1..Len(trees)
  /\ LET r == Eval(trees[i].e, cells, envs)
     IN /\ cells' = r.cells
        /\ envs' = r.envs
        /\ ret' = [v |-> r.v, panic |-> r.panic]
        /\ evald' = i
        /\ before' = [cells |-> cells, envs |-> envs]
  /\ UNCHANGED <<vars, funcs, trees, src, input, pos, expectVal, tokens, ti, os, es,
                 expectArgs, pc, err, result, arch>>

\* the caller calls vars[name].Set(value)
SetCall(name, value) ==
  /\ pc = "idle"
  /\ name \in DOMAIN vars
  /\ cells' = [cells EXCEPT ![vars[name]] = value]
  /\ UNCHANGED <<vars, funcs, envs, trees, src, input, pos, expectVal, tokens, ti, os, es,
                 expectArgs, pc, err, result, ret, evald, before, arch>>

-----------------------------------------------------------------------------
(* Initial states *)

Archs == {"amd64", "arm64"}

\* the state after the caller has made its maps: the variable map v over the
\* cells c and the function map f; nothing parsed yet
InitWith(v, c, f) ==
  /\ vars = v /\ cells = c /\ funcs = f
  /\ envs = <<>> /\ trees = <<>>
  /\ src = <<>> /\ input = <<>> /\ pos = 0 /\ expectVal = TRUE /\ tokens = <<>>
  /\ ti = 0 /\ os = <<>> /\ es = <<>> /\ expectArgs = FALSE
  /\ pc = "idle" /\ err = NoErr /\ result = Nil
  /\ ret = [v |-> Zero, panic |-> FALSE] /\ evald = 0
  /\ before = [cells |-> c, envs |-> <<>>]
  /\ arch \in Archs

NoVars == [name \in {} |-> 0]
NoFuncs == [name \in {} |-> "last"]

-----------------------------------------------------------------------------
(* Two binary operators: "a o1 b o2 c" *)

\* operands are the literals 0..MaxOperand
MaxOperand == 1
OperandRunes == {c \in Digits : DigitVal[c] <= MaxOperand}

BinaryOps == {t \in DOMAIN opsMap : ~isUnary(opsMap[t]) /\ opsMap[t] # assign}

BinaryInputs ==
  {<<a>> \o o1 \o <<b>> \o o2 \o <<c>> :
     a \in OperandRunes, b \in OperandRunes, c \in OperandRunes,
     o1 \in BinaryOps, o2 \in BinaryOps}

InitBinary == InitWith(NoVars, <<>>, NoFuncs)

\* the caller parses one formula "a o1 b o2 c" and evaluates the tree
NextBinary ==
  \/ (input = <<>> /\ \E s \in BinaryInputs : ParseCall(s))
  \/ TokenizeStep
  \/ ParseToken
  \/ ParseReturn
  \/ (evald = 0 /\ EvalCall(1))

SpecBinary == InitBinary /\ [][NextBinary]_vv

\* the level of a binary operator on the grammar surface (1 binds tightest)
LevelOf(op) ==
  CASE op \in {multiply, divide, remainder} -> 1
    [] op \in {plus, minus} -> 2
    [] op \in {shl, shr} -> 3
    [] op \in {lessThan, lessOrEquals, greaterThan, greaterOrEquals} -> 4
    [] op \in {equals, notEquals} -> 5
    [] op = bitwiseAnd -> 6
    [] op = bitwiseXor -> 7
    [] op = bitwiseOr -> 8
    [] op = logicalAnd -> 9
    [] op = logicalOr -> 10

\* the parts of the text "a o1 b o2 c"
MidDigit(s) == CHOOSE j \in 2..(Len(s) - 1) : s[j] \in Digits
Op1(s) == opsMap[SubSeq(s, 2, MidDigit(s) - 1)]
Op2(s) == opsMap[SubSeq(s, MidDigit(s) + 1, Len(s) - 1)]
Lit(c) == constExpr(NumOf(DigitVal[c]))
\* (a o1 b) o2 c
LeftTree(s) ==
  binaryExpr(Op2(s), binaryExpr(Op1(s), Lit(s[1]), Lit(s[MidDigit(s)])), Lit(s[Len(s)]))
\* a o1 (b o2 c)
RightTree(s) ==
  binaryExpr(Op1(s), Lit(s[1]), binaryExpr(Op2(s), Lit(s[MidDigit(s)]), Lit(s[Len(s)])))

\* Parse has returned; the tree it returned holds exactly the expression want
Returned(want) ==
  /\ err = NoErr
  /\ result.k = "func" /\ result.eval = "last" /\ result.args = <<want>>

\* the last Eval ran on the first tree and returned what want evaluates to
Evaluated(want) ==
  evald = 1 =>
    ret = [v |-> Eval(want, before.cells, before.envs).v, panic |-> FALSE]

\* C1: when the two operators of "a o1 b o2 c" are on different levels of
\* the grammar surface, Parse returns the tree in which the operator of the
\* higher (tighter) level is applied first, a o1 (b o2 c) or (a o1 b) o2 c,
\* and Eval on it returns the value of that tree.
PrecedenceAcrossLevels ==
  (pc = "idle" /\ input # <<>> /\ LevelOf(Op1(src)) # LevelOf(Op2(src))) =>
    LET want == IF LevelOf(Op2(src)) < LevelOf(Op1(src))
                THEN RightTree(src) ELSE LeftTree(src)
    IN Returned(want) /\ Evaluated(want)

\* "1+1*0" was parsed and evaluated to 1 (and not to (1+1)*0)
PrecedenceWitness ==
  /\ src = <<"1", "+", "1", "*", "0">>
  /\ evald = 1
  /\ ret = [v |-> NumOf(1), panic |-> FALSE]

\* C2: when the two operators of "a o1 b o2 c" are on the same level of the
\* grammar surface, Parse returns the tree (a o1 b) o2 c and Eval on it
\* returns the value of that tree.
LeftAssocSameLevel ==
  (pc = "idle" /\ input # <<>> /\ LevelOf(Op1(src)) = LevelOf(Op2(src))) =>
    Returned(LeftTree(src)) /\ Evaluated(LeftTree(src))

-----------------------------------------------------------------------------
(* Chains of unary operators: "u1 ... un v" and "1 + u1 ... un v" *)

\* the runes of the four unary operators
UnaryRunes == {"-", "!", "~", SQRT}

\* chains hold 1..MaxChain unary operators
MaxChain == 2
UnaryChains == UNION {[1..n -> UnaryRunes] : n \in 1..MaxChain}

\* the operands: literals whose iterated square roots are rational
UnaryOperands == {<<"0">>, <<"1">>, <<"1", "6">>}

UnaryInputs ==
  {ch \o v : ch \in UnaryChains, v \in UnaryOperands}
  \cup {<<"1", "+">> \o ch \o v : ch \in UnaryChains, v \in UnaryOperands}

InitUnary == InitWith(NoVars, <<>>, NoFuncs)

\* the caller parses one formula with a chain of unary operators and
\* evaluates the tree
NextUnary ==
  \/ (input = <<>> /\ \E s \in UnaryInputs : ParseCall(s))
  \/ TokenizeStep
  \/ ParseToken
  \/ ParseReturn
  \/ (evald = 0 /\ EvalCall(1))

SpecUnary == InitUnary /\ [][NextUnary]_vv

UnaryOpOf(c) == IF c = "-" THEN unaryMinus ELSE opsMap[<<c>>]

\* u1(u2(...un(v))) for the text "u1 u2 ... un v"
RECURSIVE ChainTree(_)
ChainTree(s) ==
  IF Head(s) \in UnaryRunes THEN newUnaryExpr(UnaryOpOf(Head(s)), ChainTree(Tail(s)))
  ELSE constExpr(ParseFloat(s).value)

\* the tree the text of a unary input stands for
UnaryTree(s) ==
  IF Head(s) \in UnaryRunes THEN ChainTree(s)
  ELSE binaryExpr(plus, Lit(s[1]), ChainTree(SubSeq(s, 3, Len(s))))

\* C3: Parse succeeds on every chain of unary operators "u1 ... un v" and
\* returns u1(u2(...un(v))), and on "1 + u1 ... un v" it returns
\* 1 + u1(...un(v)): no unary operator takes the left operand of the "+";
\* Eval returns the value of that tree.
UnaryChainsBind ==
  (pc = "idle" /\ input # <<>>) =>
    Returned(UnaryTree(src)) /\ Evaluated(UnaryTree(src))

-----------------------------------------------------------------------------
(* Assignments: "v=e" and "v=w=e" *)

X == <<"x">>
Y == <<"y">>
ACC == <<"a", "c", "c">>

\* the variable node of a name of the caller's map
V(name) == varExpr(vars[name])

\* Eval is called only while every cell and every accumulator is below MaxValue
MaxValue == 7
Below(n) ==
  /\ \A c \in 1..Len(cells) : NumLt(cells[c], NumOf(n))
  /\ \A e \in 1..Len(envs) : NumLt(EnvGet(envs[e], "accum"), NumOf(n))

\* the right-hand sides: "2", "x", "y", "x+1", "acc(1)"
AssignRhs ==
  {<<"2">>, X, Y, <<"x", "+", "1">>, ACC \o <<"(", "1", ")">>}

\* the tree of a right-hand side (the call is the first one Parse binds)
RhsTree(e) ==
  CASE e = <<"2">> -> Lit("2")
    [] e = X -> V(X)
    [] e = Y -> V(Y)
    [] e = <<"x", "+", "1">> -> binaryExpr(plus, V(X), Lit("1"))
    [] e = ACC \o <<"(", "1", ")">> -> simpleFunc("accum", <<Lit("1")>>, 1)

AssignInputs ==
  {v \o <<"=">> \o e : v \in {X, Y}, e \in AssignRhs}
  \cup {v \o <<"=">> \o w \o <<"=">> \o e : v \in {X, Y}, w \in {X, Y}, e \in AssignRhs}

\* the caller's map holds x (5) and not y; acc is the accumulator of the tests
InitAssign == InitWith((X :> 1), <<NumOf(5)>>, (ACC :> "accum"))

\* the caller parses one assignment, may set x, and evaluates the tree
\* repeatedly
NextAssign ==
  \/ (input = <<>> /\ \E s \in AssignInputs : ParseCall(s))
  \/ TokenizeStep
  \/ ParseToken
  \/ ParseReturn
  \/ (evald = 0 /\ SetCall(X, NumOf(3)))
  \/ (Below(MaxValue) /\ EvalCall(1))

SpecAssign == InitAssign /\ [][NextAssign]_vv

\* the parts of the text "v=e" or "v=w=e"
NumAssigns(s) == Cardinality({i \in 1..Len(s) : s[i] = "="})
AssignRhsOf(s) == SubSeq(s, 2 * NumAssigns(s) + 1, Len(s))
\* the cells the text assigns to
AssignedCells(s) == {vars[<<s[2 * i - 1]>>] : i \in 1..NumAssigns(s)}
\* v=e, v=(w=e)
AssignTree(s) ==
  IF NumAssigns(s) = 1 THEN binaryExpr(assign, V(<<s[1]>>), RhsTree(AssignRhsOf(s)))
  ELSE binaryExpr(assign, V(<<s[1]>>),
                  binaryExpr(assign, V(<<s[3]>>), RhsTree(AssignRhsOf(s))))

\* C4: Parse returns v=e for "v=e" and v=(w=e) for "v=w=e"; an Eval of that
\* tree evaluates e once, returns its value, and leaves that value in the
\* cell of v (and of w) and every other cell and environment as the one
\* evaluation of e left them.
AssignWritesThrough ==
  (pc = "idle" /\ input # <<>>) =>
    /\ Returned(AssignTree(src))
    /\ evald = 1 =>
         LET r == Eval(RhsTree(AssignRhsOf(src)), before.cells, before.envs)
         IN /\ ret = [v |-> r.v, panic |-> FALSE]
            /\ envs = r.envs
            /\ cells = [c \in 1..Len(r.cells) |->
                          IF c \in AssignedCells(src) THEN r.v ELSE r.cells[c]]

\* "x=y=acc(1)" was evaluated twice: the second Eval returned 2 and left 2
\* in both cells
AssignWitness ==
  /\ src = X \o <<"=">> \o Y \o <<"=">> \o ACC \o <<"(", "1", ")">>
  /\ evald = 1
  /\ ret = [v |-> NumOf(2), panic |-> FALSE]
  /\ cells[vars[X]] = NumOf(2) /\ cells[vars[Y]] = NumOf(2)

-----------------------------------------------------------------------------
(* Logical operators with an assignment in an operand *)

F == <<"f">>
SetX1 == <<"(", "x", "=", "1", ")">>

\* "a&&(x=1)", "a||(x=1)", "(x=1)&&a", "(x=1)||a", "f(x=1)&&a", "f(x=1)||a"
LogicInputs ==
  UNION {{<<a>> \o o \o SetX1, SetX1 \o o \o <<a>>, F \o SetX1 \o o \o <<a>>} :
           a \in {"0", "1", "2"}, o \in {<<"&", "&">>, <<"|", "|">>}}

\* the caller's map holds x (5); f is the plusone of the tests
InitLogic == InitWith((X :> 1), <<NumOf(5)>>, (F :> "plusone"))

\* the caller parses one such formula and evaluates the tree
NextLogic ==
  \/ (input = <<>> /\ \E s \in LogicInputs : ParseCall(s))
  \/ TokenizeStep
  \/ ParseToken
  \/ ParseReturn
  \/ (evald = 0 /\ EvalCall(1))

SpecLogic == InitLogic /\ [][NextLogic]_vv

\* C5: Parse succeeds on the formula, and when Eval on a logical-and or
\* logical-or tree with the assignment x=1 in one operand returns, the
\* assignment has been performed (the cell of x holds 1) whatever the value
\* of the other operand, and the result is 0 or 1.
NoShortCircuit ==
  /\ (pc = "idle" /\ input # <<>>) => err = NoErr
  /\ evald = 1 =>
       /\ ~ret.panic
       /\ ret.v \in {NumOf(0), NumOf(1)}
       /\ cells[vars[X]] = NumOf(1)

-----------------------------------------------------------------------------
(* Two assignments to one variable: "(x=a) o (x=b)" and "(x=a,x=b)" *)

SetX(c) == <<"(", "x", "=", c, ")">>

OrderInputs ==
  {SetX(a) \o o \o SetX(b) : a \in OperandRunes, b \in OperandRunes, o \in BinaryOps}
  \cup {<<"(", "x", "=", a, ",", "x", "=", b, ")">> : a \in OperandRunes, b \in OperandRunes}

InitOrder == InitWith((X :> 1), <<NumOf(5)>>, NoFuncs)

\* the caller parses one such formula and evaluates the tree
NextOrder ==
  \/ (input = <<>> /\ \E s \in OrderInputs : ParseCall(s))
  \/ TokenizeStep
  \/ ParseToken
  \/ ParseReturn
  \/ (evald = 0 /\ EvalCall(1))

SpecOrder == InitOrder /\ [][NextOrder]_vv

\* the literal of the assignment that stands last in the text
LastAssigned(s) == NumOf(DigitVal[s[Len(s) - 1]])

\* C6: operands are evaluated left before right and the entries of a
\* grouping in textual order: when Eval on "(x=a) o (x=b)" or "(x=a,x=b)"
\* returns, the cell of x holds b, the value assigned last in the text.
LeftBeforeRight ==
  /\ (pc = "idle" /\ input # <<>>) => err = NoErr
  /\ evald = 1 => (~ret.panic /\ cells[vars[X]] = LastAssigned(src))

-----------------------------------------------------------------------------
(* Divide and remainder: "a/b" and "a%b" *)

Dividends ==
  {<<"0">>, <<"1">>, <<"7">>, <<"-", "1">>, X, <<"i", "n", "f">>, <<"n", "a", "n">>,
   SetX1}

\* the divisors that evaluate to 0 from the cells cs
ZeroDivisors(cs) ==
  {<<"0">>, <<"0", ".", "0">>, <<"(", "1", "-", "1", ")">>, <<"!", "1">>,
   <<"(", "y", "=", "0", ")">>}
  \cup (IF cs[vars[Y]] = Zero THEN {Y} ELSE {})

Divisors == {<<"1">>, <<"2">>, Y} \cup ZeroDivisors(<<Zero, Zero>>)

DivOps == {"/", "%"}
DivInputs == {a \o <<o>> \o b : a \in Dividends, o \in DivOps, b \in Divisors}

\* the caller's map holds x (5) and y (0)
InitDiv == InitWith((X :> 1) @@ (Y :> 2), <<NumOf(5), Zero>>, NoFuncs)

\* the caller sets x and y, parses one formula and evaluates the tree
NextDiv ==
  \/ (input = <<>> /\ \E s \in DivInputs : ParseCall(s))
  \/ TokenizeStep
  \/ ParseToken
  \/ ParseReturn
  \/ (evald = 0 /\ \E v \in {NumOf(3), NaN, Inf(1), Inf(-1)} : SetCall(X, v))
  \/ (evald = 0 /\ \E v \in {Zero, NumOf(2)} : SetCall(Y, v))
  \/ (evald = 0 /\ EvalCall(1))

SpecDiv == InitDiv /\ [][NextDiv]_vv

\* C7: Parse makes a divide or remainder node of "a/b" and "a%b", and when
\* the divisor b evaluates to exactly 0, Eval returns 0 without a fault,
\* whatever the dividend a is (finite, infinite or NaN).
DivByZeroIsZero ==
  /\ (pc = "idle" /\ input # <<>>) =>
       /\ err = NoErr
       /\ result.args[1].k = "binary"
       /\ result.args[1].op =
            (IF \E i \in 1..Len(src) : src[i] = "/" THEN divide ELSE remainder)
  /\ evald = 1 =>
       \A a \in Dividends, o \in DivOps, b \in ZeroDivisors(before.cells) :
         src = a \o <<o>> \o b => ret = [v |-> Zero, panic |-> FALSE]

\* "x/y" evaluated while x holds NaN and y holds 0 returned 0
DivByZeroWitness ==
  /\ src = <<"x", "/", "y">>
  /\ evald = 1
  /\ before.cells = <<NaN, Zero>>
  /\ ret = [v |-> Zero, panic |-> FALSE]

-----------------------------------------------------------------------------
(* Several formulas parsed with one variable map *)

VarRunes == {"x", "y", "w"}

\* at most MaxTrees formulas are parsed with the map
MaxTrees == 2

\* "x=2", "x+1", "y=f(x)", and "w*", which Parse rejects
SharedInputs ==
  {<<"x", "=", "2">>, <<"x", "+", "1">>, <<"y", "=", "f", "(", "x", ")">>, <<"w", "*">>}

\* the caller's map holds x (5); f is the plusone of the tests
\* (no formula of SharedInputs has a shift, so one build stands for both)
InitShared == InitWith((X :> 1), <<NumOf(5)>>, (F :> "plusone")) /\ arch = "amd64"

\* the caller parses formulas with its maps, evaluates the trees it has and
\* sets the variables of the map, in any order
NextShared ==
  \/ (Len(trees) < MaxTrees /\ \E s \in SharedInputs : ParseCall(s))
  \/ TokenizeStep
  \/ ParseToken
  \/ ParseReturn
  \/ (\E name \in DOMAIN vars : SetCall(name, NumOf(3)))
  \/ (\E i \in 1..Len(trees) : EvalCall(i))

SpecShared == InitShared /\ [][NextShared]_vv

\* the cells of the variable nodes of a tree, from left to right
RECURSIVE VarCells(_)
VarCellsOfArgs(args) ==
  LET RECURSIVE cat(_)
      cat(i) == IF i > Len(args) THEN <<>> ELSE VarCells(args[i]) \o cat(i + 1)
  IN cat(1)
VarCells(e) ==
  CASE e.k = "const" -> <<>>
    [] e.k = "var" -> <<e.cell>>
    [] e.k = "unary" -> VarCells(e.arg)
    [] e.k = "binary" -> VarCells(e.a) \o VarCells(e.b)
    [] e.k = "func" -> VarCellsOfArgs(e.args)

\* the variable names of a text, from left to right
NamesOf(s) == SelectSeq(s, LAMBDA c : c \in VarRunes)

\* what a formula of SharedInputs returns, and the cells it leaves, when the
\* cells are cs
ValueOf(s, cs) ==
  CASE s = <<"x", "=", "2">> -> NumOf(2)
    [] s = <<"x", "+", "1">> -> NumAdd(cs[vars[X]], NumOf(1))
    [] s = <<"y", "=", "f", "(", "x", ")">> -> NumAdd(cs[vars[X]], NumOf(1))
CellsAfter(s, cs) ==
  CASE s = <<"x", "=", "2">> -> [cs EXCEPT ![vars[X]] = NumOf(2)]
    [] s = <<"y", "=", "f", "(", "x", ")">> ->
         [cs EXCEPT ![vars[Y]] = NumAdd(cs[vars[X]], NumOf(1))]
    [] OTHER -> cs

\* every variable node of every tree is the cell of the map under its name
OneCellPerName ==
  \A i \in 1..Len(trees) :
    LET names == NamesOf(trees[i].src)
        leaves == VarCells(trees[i].e)
    IN /\ Len(leaves) = Len(names)
       /\ \A j \in 1..Len(names) :
            <<names[j]>> \in DOMAIN vars /\ leaves[j] = vars[<<names[j]>>]

\* C8: after any sequence of Parse, Eval and Set with one variable map,
\* every occurrence of a name in every tree is the one cell the map holds
\* under that name and distinct names have distinct cells; Eval of a tree
\* reads the values the cells hold at the call and writes its assignments to
\* them, and Set writes the cell of its name and no other.
SharedCells ==
  /\ [](OneCellPerName /\ \A m, n \in DOMAIN vars : vars[m] = vars[n] => m = n)
  /\ [][\A i \in 1..Len(trees) : EvalCall(i) =>
          /\ ret' = [v |-> ValueOf(trees[i].src, cells), panic |-> FALSE]
          /\ cells' = CellsAfter(trees[i].src, cells)]_vv
  /\ [][\A name \in DOMAIN vars : SetCall(name, NumOf(3)) =>
          \A i \in 1..Len(trees) : \A j \in 1..Len(NamesOf(trees[i].src)) :
            cells'[VarCells(trees[i].e)[j]] =
              IF <<NamesOf(trees[i].src)[j]>> = name THEN NumOf(3)
              ELSE cells[VarCells(trees[i].e)[j]]]_vv

\* "x=2" and then "x+1" were parsed with the map, the first was evaluated
\* and then the second returned 3
SharedWitness ==
  /\ Len(trees) = 2
  /\ trees[1].src = <<"x", "=", "2">>
  /\ trees[2].src = <<"x", "+", "1">>
  /\ evald = 2
  /\ before.cells[vars[X]] = NumOf(2)
  /\ ret = [v |-> NumOf(3), panic |-> FALSE]

\* the identifier Parse is looking at
TokenAt == IF pc = "parse" /\ ti + 1 \in 1..Len(tokens) THEN tokens[ti + 1] ELSE <<>>

-----------------------------------------------------------------------------
(* Comma lists: "(e1,...,en)" and "e1, ..., en" *)

\* the lists have at most MaxList entries
MaxList == 3

\* the entries: "x=1", "x=2", "x", "x=x+1", "2+3", "5*3"
Entries ==
  {<<"x", "=", "1">>, <<"x", "=", "2">>, X, <<"x", "=", "x", "+", "1">>,
   <<"2", "+", "3">>, <<"5", "*", "3">>}

EntryLists == UNION {[1..n -> Entries] : n \in 1..MaxList}

\* the entries of a list with sep between them
RECURSIVE Join(_, _)
Join(list, sep) ==
  IF Len(list) = 1 THEN list[1] ELSE list[1] \o sep \o Join(Tail(list), sep)

CommaInputs ==
  {<<"(">> \o Join(l, <<",">>) \o <<")">> : l \in EntryLists}
  \cup {Join(l, <<",", " ">>) : l \in EntryLists}

InitComma == InitWith((X :> 1), <<NumOf(5)>>, NoFuncs)

\* the caller parses one list and evaluates the tree
NextComma ==
  \/ (input = <<>> /\ \E s \in CommaInputs : ParseCall(s))
  \/ TokenizeStep
  \/ ParseToken
  \/ ParseReturn
  \/ (evald = 0 /\ EvalCall(1))

SpecComma == InitComma /\ [][NextComma]_vv

\* the entries of the text of a list, in its order
RECURSIVE SplitCommas(_)
SplitCommas(s) ==
  IF \E i \in 1..Len(s) : s[i] = ","
  THEN LET i == CHOOSE k \in 1..Len(s) : s[k] = "," /\ \A m \in 1..(k - 1) : s[m] # ","
       IN <<SubSeq(s, 1, i - 1)>> \o SplitCommas(SubSeq(s, i + 1, Len(s)))
  ELSE <<s>>
EntriesOf(s) ==
  LET t == SelectSeq(s, LAMBDA c : c # " ")
  IN SplitCommas(IF t[1] = "(" THEN SubSeq(t, 2, Len(t) - 1) ELSE t)

\* what one entry returns (v) and leaves in x when x holds the integer x0
EntryRun(t, x0) ==
  CASE t = <<"x", "=", "1">> -> [v |-> 1, x |-> 1]
    [] t = <<"x", "=", "2">> -> [v |-> 2, x |-> 2]
    [] t = X -> [v |-> x0, x |-> x0]
    [] t = <<"x", "=", "x", "+", "1">> -> [v |-> x0 + 1, x |-> x0 + 1]
    [] t = <<"2", "+", "3">> -> [v |-> 5, x |-> x0]
    [] t = <<"5", "*", "3">> -> [v |-> 15, x |-> x0]

\* the entries run once each, the first first
RECURSIVE ListRun(_, _)
ListRun(list, x0) ==
  IF Len(list) = 1 THEN EntryRun(list[1], x0)
  ELSE ListRun(Tail(list), EntryRun(list[1], x0).x)

\* C10: Parse accepts "(e1,...,en)" and "e1, ..., en", and Eval of the tree
\* returns what en returns after e1..en have each run once in this order,
\* and leaves in x what these runs leave.
CommaLists ==
  /\ (pc = "idle" /\ input # <<>>) => err = NoErr
  /\ evald = 1 =>
       LET r == ListRun(EntriesOf(src), before.cells[vars[X]].n)
       IN /\ ret = [v |-> NumOf(r.v), panic |-> FALSE]
          /\ cells = <<NumOf(r.x)>>

\* "(x=1,x=2,x)" returned 2 and x holds 2
CommaWitness ==
  /\ src = <<"(", "x", "=", "1", ",", "x", "=", "2", ",", "x", ")">>
  /\ evald = 1
  /\ ret = [v |-> NumOf(2), panic |-> FALSE]
  /\ cells[vars[X]] = NumOf(2)

-----------------------------------------------------------------------------
(* Function calls: "f(e1,...,en)" *)

G == <<"g">>

\* a call has at most MaxArgs arguments
MaxArgs == 3

\* an argument: its text s, its tree e (environments left out) and its
\* value v while x holds 5: "1", "x", "1+2", "g(3)"
ArgCases ==
  {[v |-> 1, s |-> <<"1">>, e |-> constExpr(NumOf(1))],
   [v |-> 5, s |-> X, e |-> varExpr(1)],
   [v |-> 3,
    s |-> <<"1", "+", "2">>, e |-> binaryExpr(plus, constExpr(NumOf(1)), constExpr(NumOf(2)))],
   [v |-> 4,
    s |-> <<"g", "(", "3", ")">>, e |-> simpleFunc("plusone", <<constExpr(NumOf(3))>>, 0)]}

ArgLists == UNION {[1..n -> ArgCases] : n \in 0..MaxArgs}

\* the texts of the arguments with commas between them
RECURSIVE ArgText(_)
ArgText(l) ==
  IF l = <<>> THEN <<>>
  ELSE IF Len(l) = 1 THEN l[1].s
  ELSE l[1].s \o <<",">> \o ArgText(Tail(l))

\* what add3 returns for the arguments l: it reads the first three
Add3Of(l) ==
  IF Len(l) < 3 THEN [v |-> 0, panic |-> TRUE]
  ELSE [v |-> l[1].v + l[2].v + l[3].v, panic |-> FALSE]

\* the call "f(l)" alone, as the right operand of "2+", as the argument of
\* g and as the middle argument of another f
CallCases ==
  UNION {LET call == <<"f", "(">> \o ArgText(l) \o <<")">>
             tree == simpleFunc("add3", [i \in 1..Len(l) |-> l[i].e], 0)
             r == Add3Of(l)
         IN {[v |-> r.v, s |-> call, panic |-> r.panic, e |-> tree],
             [v |-> 2 + r.v,
              s |-> <<"2", "+">> \o call,
              panic |-> r.panic, e |-> binaryExpr(plus, constExpr(NumOf(2)), tree)],
             [v |-> r.v + 1,
              s |-> <<"g", "(">> \o call \o <<")">>,
              panic |-> r.panic, e |-> simpleFunc("plusone", <<tree>>, 0)],
             [v |-> 7 + r.v + 5,
              s |-> <<"f", "(", "7", ",">> \o call \o <<",", "x", ")">>,
              panic |-> r.panic, e |-> simpleFunc("add3", <<constExpr(NumOf(7)), tree, varExpr(1)>>, 0)]} : l \in ArgLists}

\* the caller's maps of the tests: x (5), f (add3) and g (plusone)
InitCall == InitWith((X :> 1), <<NumOf(5)>>, (F :> "add3") @@ (G :> "plusone"))

\* the caller parses one formula and evaluates the tree
NextCall ==
  \/ (input = <<>> /\ \E c \in CallCases : ParseCall(c.s))
  \/ TokenizeStep
  \/ ParseToken
  \/ ParseReturn
  \/ (evald = 0 /\ EvalCall(1))

SpecCall == InitCall /\ [][NextCall]_vv

\* a tree without the environments of its calls
RECURSIVE Erase(_)
Erase(e) ==
  CASE e.k = "unary" -> [e EXCEPT !.arg = Erase(e.arg)]
    [] e.k = "binary" -> [e EXCEPT !.a = Erase(e.a), !.b = Erase(e.b)]
    [] e.k = "func" ->
         [e EXCEPT !.args = [i \in 1..Len(e.args) |-> Erase(e.args[i])], !.env = 0]
    [] OTHER -> e

\* C11: Parse binds a call "f(e1,...,en)", n >= 0, with the n trees of
\* e1..en in this order and no other, also when the call is an operand of an
\* operator with a value on the stack or an argument of another call; Eval
\* of the tree gives what the function gives for these arguments.
CallArgsInOrder ==
  (pc = "idle" /\ input # <<>>) =>
    \A c \in CallCases :
      src = c.s =>
        /\ err = NoErr
        /\ Erase(result) = simpleFunc("last", <<c.e>>, 0)
        /\ evald = 1 =>
             /\ ret.panic = c.panic
             /\ ~c.panic => ret.v = NumOf(c.v)

\* "f(7,f(1,x,g(3)),x)" was parsed and evaluated to 22
CallWitness ==
  /\ src = <<"f", "(", "7", ",", "f", "(", "1", ",", "x", ",", "g", "(", "3", ")", ")",
             ",", "x", ")">>
  /\ evald = 1
  /\ ret = [v |-> NumOf(22), panic |-> FALSE]

-----------------------------------------------------------------------------
(* Calls of an accumulator: "acc(x)" and "acc(x)+acc(1)" *)

AccX == ACC \o <<"(", "x", ")">>
AccXPlusAcc1 == AccX \o <<"+">> \o ACC \o <<"(", "1", ")">>
EnvInputs == {AccX, AccXPlusAcc1}

\* x holds 1; acc is the accumulator of the tests
\* (no formula of EnvInputs has a shift, so one build stands for both)
InitEnv == InitWith((X :> 1), <<NumOf(1)>>, (ACC :> "accum")) /\ arch = "amd64"

\* Eval is called only while every sum is below MaxSum
MaxSum == 3

\* the caller parses two formulas, sets x and evaluates the trees it has, in
\* any order
NextEnv ==
  \/ (Len(trees) < Cardinality(EnvInputs) /\ \E s \in EnvInputs : ParseCall(s))
  \/ TokenizeStep
  \/ ParseToken
  \/ ParseReturn
  \/ (\E v \in 1..2 : SetCall(X, NumOf(v)))
  \/ (Below(MaxSum) /\ \E i \in 1..Len(trees) : EvalCall(i))

SpecEnv == InitEnv /\ [][NextEnv]_vv

\* the environments of the call nodes of a tree, from left to right, a call
\* before its arguments
RECURSIVE FuncEnvs(_)
FuncEnvsOfArgs(args) ==
  LET RECURSIVE cat(_)
      cat(i) == IF i > Len(args) THEN <<>> ELSE FuncEnvs(args[i]) \o cat(i + 1)
  IN cat(1)
FuncEnvs(e) ==
  CASE e.k = "unary" -> FuncEnvs(e.arg)
    [] e.k = "binary" -> FuncEnvs(e.a) \o FuncEnvs(e.b)
    [] e.k = "func" -> <<e.env>> \o FuncEnvsOfArgs(e.args)
    [] OTHER -> <<>>

\* the environments of the call nodes of all the trees
AllFuncEnvs ==
  LET RECURSIVE cat(_)
      cat(i) == IF i > Len(trees) THEN <<>> ELSE FuncEnvs(trees[i].e) \o cat(i + 1)
  IN cat(1)

\* the environments of the acc calls of the i-th tree (the first is that of
\* the grouping around the whole input)
AccEnvs(i) == Tail(FuncEnvs(trees[i].e))

\* the arguments the acc calls of the text s see when x holds xv
AccArgs(s, xv) == IF s = AccX THEN <<xv>> ELSE <<xv, NumOf(1)>>

\* the environments after the calls of the i-th tree have each added the
\* argument it sees to its own sum
EnvsAfter(i) ==
  LET sites == AccEnvs(i)
      seen == AccArgs(trees[i].src, cells[vars[X]])
  IN [k \in 1..Len(envs) |->
        IF \E j \in 1..Len(sites) : sites[j] = k
        THEN LET j == CHOOSE j \in 1..Len(sites) : sites[j] = k
             IN EnvPut(envs[k], "accum", NumAdd(EnvGet(envs[k], "accum"), seen[j]))
        ELSE envs[k]]

\* the sum of the sums of the acc calls of the i-th tree in the environments ev
RECURSIVE SumOfSites(_, _)
SumOfSites(sites, ev) ==
  IF sites = <<>> THEN Zero
  ELSE NumAdd(EnvGet(ev[Head(sites)], "accum"), SumOfSites(Tail(sites), ev))

\* C12: every call node has an environment of its own, which is empty when
\* Parse binds the node and which no step of Parse changes afterwards; an
\* Eval of a tree adds to the sum of each of its acc calls the argument this
\* call sees, returns the new sums, and leaves the environment of every
\* other call node as it is - so the k-th Eval of a call returns the sum of
\* the arguments of its first k evaluations, whatever else is evaluated
\* in between.
EnvPerCallSite ==
  /\ [](/\ \A k \in 1..Len(AllFuncEnvs) : AllFuncEnvs[k] \in 1..Len(envs)
        /\ \A k, m \in 1..Len(AllFuncEnvs) : AllFuncEnvs[k] = AllFuncEnvs[m] => k = m)
  /\ [][(pc # "idle" \/ pc' # "idle") =>
          /\ Len(envs') >= Len(envs)
          /\ \A k \in 1..Len(envs') : envs'[k] = IF k <= Len(envs) THEN envs[k] ELSE EmptyEnv]_vv
  /\ [][\A i \in 1..Len(trees) : EvalCall(i) =>
          /\ Len(AccEnvs(i)) = Len(AccArgs(trees[i].src, cells[vars[X]]))
          /\ envs' = EnvsAfter(i)
          /\ ret' = [v |-> SumOfSites(AccEnvs(i), EnvsAfter(i)), panic |-> FALSE]]_vv

\* "acc(x)" was parsed twice; the first call has summed 2 in two evaluations
\* when the first evaluation of the second returns 1
EnvWitness ==
  /\ Len(trees) = 2
  /\ trees[1].src = AccX
  /\ trees[2].src = AccX
  /\ evald = 2
  /\ EnvGet(envs[AccEnvs(1)[1]], "accum") = NumOf(2)
  /\ ret = [v |-> NumOf(1), panic |-> FALSE]

-----------------------------------------------------------------------------
(* Formulas with no assignment and no function that keeps state *)

\* "x o 2", "2 o x", "x o x" for every binary operator o but '=', "-x", "!x",
\* "~x", "g(x)", "(x,2)", "x/0", "g(x)+g(2)*x"
PureInputs ==
  UNION {{X \o o \o <<"2">>, <<"2">> \o o \o X, X \o o \o X} : o \in BinaryOps}
  \cup {<<u>> \o X : u \in {"-", "!", "~"}}
  \cup {G \o <<"(">> \o X \o <<")">>, <<"(", "x", ",", "2", ")">>, <<"x", "/", "0">>,
        <<"g", "(", "x", ")", "+", "g", "(", "2", ")", "*", "x">>}

InitPure == InitWith((X :> 1), <<NumOf(5)>>, (G :> "plusone"))

\* the caller parses one formula, and then sets x and evaluates the tree, in
\* any order and any number of times
NextPure ==
  \/ (input = <<>> /\ \E s \in PureInputs : ParseCall(s))
  \/ TokenizeStep
  \/ ParseToken
  \/ ParseReturn
  \/ (\E v \in {-1, 0, 4} : SetCall(X, NumOf(v)))
  \/ EvalCall(1)

SpecPure == InitPure /\ [][NextPure]_vv

\* C13: Parse accepts the formula; an Eval of its tree changes no cell and
\* no environment, and when the cells are as they were at the Eval before it
\* returns what that Eval returned.
RepeatableEval ==
  /\ []((pc = "idle" /\ input # <<>>) => err = NoErr)
  /\ [][EvalCall(1) =>
          /\ cells' = cells
          /\ envs' = envs
          /\ ~ret'.panic
          /\ (evald = 1 /\ before.cells = cells) => ret' = ret]_vv

\* "g(x)+g(2)*x" has been evaluated while x holds 4 (5 + 3 * 4) and the cell
\* is as it was
RepeatableWitness ==
  /\ src = <<"g", "(", "x", ")", "+", "g", "(", "2", ")", "*", "x">>
  /\ evald = 1
  /\ before.cells = <<NumOf(4)>>
  /\ cells = <<NumOf(4)>>
  /\ ret = [v |-> NumOf(17), panic |-> FALSE]

-----------------------------------------------------------------------------
(* Every input over a small alphabet *)

\* an input has at most MaxLen runes
MaxLen == 4

\* a variable, a function, two operators, the punctuation and a rune that is
\* part of no operator
AnyRunes == {"x", "f", "+", "=", "(", ")", ",", "$"}
AnyInputs == UNION {[1..n -> AnyRunes] : n \in 0..MaxLen}

\* (no input over AnyRunes has a shift, so one build stands for both)
InitAny == InitWith((X :> 1), <<NumOf(5)>>, (F :> "plusone")) /\ arch = "amd64"

\* the caller parses one input
NextAny ==
  \/ (pc = "idle" /\ src = <<>> /\ err = NoErr /\ trees = <<>> /\ \E s \in AnyInputs : ParseCall(s))
  \/ TokenizeStep
  \/ ParseToken
  \/ ParseReturn

SpecAny == InitAny /\ [][NextAny]_vv

\* Parse has returned
Returns == pc = "idle" /\ input # <<>>

ParseErrors == {ErrParen, ErrBadCall, ErrBadAssignment, ErrBadOp, ErrOperandMissing}

\* C14: when Parse returns it returns a tree and no error, or no tree and
\* one of the errors parenthesis mismatch, bad call, bad assignment, bad
\* operator and missing operand; it never returns the missing-operator error.
TwoOutcomes ==
  Returns =>
    /\ err # ErrOperatorMissing
    /\ \/ (err = NoErr /\ result # Nil
           /\ result.k \in {"const", "var", "unary", "binary", "func"}
           /\ Len(trees) = 1 /\ trees[1].e = result)
       \/ (err \in ParseErrors /\ result = Nil /\ trees = <<>>)

\* Parse of "()=x" has returned the bad-assignment error and no tree
TwoOutcomesWitness ==
  /\ Returns
  /\ src = <<"(", ")", "=", "x">>
  /\ err = ErrBadAssignment
  /\ result = Nil

-----------------------------------------------------------------------------
(* Parentheses that do not match *)

\* the number of c among the first n runes of s
CountOf(s, c, n) == Cardinality({i \in 1..n : s[i] = c})

\* some prefix of s has more ')' than '(', or s has not as many ')' as '('
Unbalanced(s) ==
  \/ \E n \in 1..Len(s) : CountOf(s, ")", n) > CountOf(s, "(", n)
  \/ CountOf(s, "(", Len(s)) # CountOf(s, ")", Len(s))

\* C15: Parse never succeeds on an input whose parentheses are unbalanced or
\* misplaced, and returns the parenthesis-mismatch error for "(", ")", "),"
\* and ")+(".
ParenMismatchFails ==
  (Returns /\ Unbalanced(src)) =>
    /\ err # NoErr
    /\ src \in {<<"(">>, <<")">>, <<")", ",">>, <<")", "+", "(">>} => err = ErrParen

-----------------------------------------------------------------------------
(* A binary operator without an operand *)

\* s is made of x, '+' and ',' only
IsPlusList(s) == \A i \in 1..Len(s) : s[i] \in {"x", "+", ","}

\* some '+' of s is the first or the last rune of its entry or stands next
\* to another '+'
LacksOperand(s) ==
  \E i \in 1..Len(s) :
    /\ s[i] = "+"
    /\ \/ i = 1 \/ i = Len(s)
       \/ s[i - 1] \in {",", "+"}
       \/ s[i + 1] \in {",", "+"}

\* C16: Parse returns the missing-operand error when a '+' of a list of
\* entries made of x and '+' lacks its left or its right operand within its
\* entry (an operand of the entry before is not taken), and for "+(".
OperandMissingFails ==
  Returns =>
    /\ (IsPlusList(src) /\ LacksOperand(src)) => err = ErrOperandMissing
    /\ src = <<"+", "(">> => err = ErrOperandMissing

-----------------------------------------------------------------------------
(* The left operand of '=' *)

\* left operands that are no bare variable: "2", "nan", "x+y", "-x", "(x)",
\* "(x,y)", "g(1)", "2*x"
BadTargets ==
  {<<"2">>, <<"n", "a", "n">>, <<"x", "+", "y">>, <<"-", "x">>, <<"(", "x", ")">>,
   <<"(", "x", ",", "y", ")">>, <<"g", "(", "1", ")">>, <<"2", "*", "x">>}
GoodTargets == {X, Y}
TargetRhs == {<<"1">>, Y, <<"y", "=", "2">>, <<"x", "+", "1">>}

\* "l=r" alone, in a grouping, after an entry, as the argument of g and as
\* the right operand of an assignment to y
TargetInputs ==
  UNION {LET a == l \o <<"=">> \o r
         IN {a, <<"(">> \o a \o <<")">>, <<"1", ",">> \o a, G \o <<"(">> \o a \o <<")">>,
             <<"y", "=">> \o a} :
           l \in BadTargets \cup GoodTargets, r \in TargetRhs}

\* some '=' of s has one of BadTargets as the whole of what stands on its
\* left within its entry
TargetHasBad(s) ==
  \E l \in BadTargets, i \in 1..Len(s) :
    /\ i + Len(l) <= Len(s)
    /\ SubSeq(s, i, i + Len(l) - 1) = l
    /\ s[i + Len(l)] = "="
    /\ (i = 1 \/ s[i - 1] \in {"(", ",", "="})

InitTarget == InitWith((X :> 1) @@ (Y :> 2), <<NumOf(5), NumOf(3)>>, (G :> "plusone"))

\* the caller parses one formula and evaluates the tree
NextTarget ==
  \/ (input = <<>> /\ \E s \in TargetInputs : ParseCall(s))
  \/ TokenizeStep
  \/ ParseToken
  \/ ParseReturn
  \/ (evald = 0 /\ EvalCall(1))

SpecTarget == InitTarget /\ [][NextTarget]_vv

\* every assign node of the tree e has a variable as its left child
RECURSIVE TargetsAreVars(_)
TargetsAreVars(e) ==
  CASE e.k = "unary" -> TargetsAreVars(e.arg)
    [] e.k = "binary" ->
         /\ e.op = assign => e.a.k = "var"
         /\ TargetsAreVars(e.a)
         /\ TargetsAreVars(e.b)
    [] e.k = "func" -> \A i \in 1..Len(e.args) : TargetsAreVars(e.args[i])
    [] OTHER -> TRUE

\* C17: Parse returns the bad-assignment error when the left operand of an
\* '=' is a constant, an operator result, a parenthesised expression or a
\* call, and succeeds when every '=' has a bare variable on its left; every
\* assign node of a tree it returns has a variable as left child, and Eval of
\* the tree does not fault.
AssignTargetIsVar ==
  /\ Returns =>
       /\ err = (IF TargetHasBad(src) THEN ErrBadAssignment ELSE NoErr)
       /\ err = NoErr => TargetsAreVars(result)
  /\ \A i \in 1..Len(trees) : TargetsAreVars(trees[i].e)
  /\ evald = 1 => ~ret.panic

\* Parse of "y=(x)=1" has returned the bad-assignment error
AssignTargetWitness ==
  /\ Returns
  /\ src = <<"y", "=", "(", "x", ")", "=", "1">>
  /\ err = ErrBadAssignment
  /\ result = Nil

-----------------------------------------------------------------------------
(* A function name and what follows it *)

\* what stands before the name: nothing, "1+", "(", "x,"
CallPrefixes == {<<>>, <<"1", "+">>, <<"(">>, <<"x", ",">>}

\* what follows the name and is no '(': an operator, a comma, ')', a number,
\* an identifier, the end of the input
NoCallFollowers ==
  {<<"+", "1">>, <<"*", "2">>, <<"=", "1">>, <<",", "1">>, <<")">>, <<" ", "1">>,
   <<" ", "x">>, <<>>}

NoCallInputs == {p \o F \o t : p \in CallPrefixes, t \in NoCallFollowers}
\* the calls "f(1)" and "f (1)" after the same prefixes but "("
GoodCallInputs ==
  {p \o F \o t : p \in CallPrefixes \ {<<"(">>}, t \in {<<"(", "1", ")">>, <<" ", "(", "1", ")">>}}

InitNoCall == InitWith((X :> 1), <<NumOf(5)>>, (F :> "plusone"))

\* the caller parses one input
NextNoCall ==
  \/ (input = <<>> /\ \E s \in NoCallInputs \cup GoodCallInputs : ParseCall(s))
  \/ TokenizeStep
  \/ ParseToken
  \/ ParseReturn

SpecNoCall == InitNoCall /\ [][NextNoCall]_vv

\* C18: Parse returns the bad-call error when the name of a function of the
\* map, with no error before it, is followed by an operator, a comma, ')', a
\* number, an identifier or the end of the input, and no error when it is
\* followed by "(1)".
BadCallFails ==
  Returns => err = (IF src \in NoCallInputs THEN ErrBadCall ELSE NoErr)

-----------------------------------------------------------------------------
(* A number or an identifier where no value is expected *)

\* what ends with a value: "1", "1.5", "x", "x2", "(1)"
AdjFirsts == {<<"1">>, <<"1", ".", "5">>, X, <<"x", "2">>, <<"(", "1", ")">>}
\* no rune, one space, two spaces
AdjGaps == {<<>>, <<" ">>, <<" ", " ">>}
\* a number and two identifiers
AdjSeconds == {<<"1">>, X, <<"y", "2">>}
AdjPrefixes == {<<>>, <<"2", "+">>}
AdjSuffixes == {<<>>, <<"+", "1">>}

\* with nothing in between, the second is a part of the first (and starts
\* nothing) when the first is an identifier, or a number and the second too
Merges(a, g, b) == g = <<>> /\ (IsLetter(a[1]) \/ (IsNumber(a[1]) /\ IsNumber(b[1])))

AdjacentInputs ==
  {p \o a \o g \o b \o t :
     <<p, a, g, b, t>> \in
       {q \in AdjPrefixes \X AdjFirsts \X AdjGaps \X AdjSeconds \X AdjSuffixes :
          ~Merges(q[2], q[3], q[4])}}
MergedInputs ==
  {p \o a \o b \o t :
     <<p, a, b, t>> \in
       {q \in AdjPrefixes \X AdjFirsts \X AdjSeconds \X AdjSuffixes :
          Merges(q[2], <<>>, q[3])}}

InitAdjacent == InitWith((X :> 1), <<NumOf(5)>>, NoFuncs)

\* the caller parses one input
NextAdjacent ==
  \/ (input = <<>> /\ \E s \in AdjacentInputs \cup MergedInputs : ParseCall(s))
  \/ TokenizeStep
  \/ ParseToken
  \/ ParseReturn

SpecAdjacent == InitAdjacent /\ [][NextAdjacent]_vv

\* C19: when a number or an identifier starts directly after a number, an
\* identifier or ')', or after whitespace that follows one, tokenize fails:
\* Parse returns an error (missing operand) and no tree, and has looked at no
\* token.  Digits and letters that continue a number or an identifier start
\* nothing, and Parse succeeds.
AdjacentValuesFail ==
  Returns =>
    IF src \in AdjacentInputs
    THEN err = ErrOperandMissing /\ result = Nil /\ trees = <<>> /\ ti = 0
    ELSE err = NoErr /\ result # Nil

\* tokenize has failed at the second number of "2+1 1"
AdjacentWitness ==
  /\ Returns
  /\ src = <<"2", "+", "1", " ", "1">>
  /\ err = ErrOperandMissing
  /\ pos = 5
  /\ tokens = <<<<"(">>, <<"2">>, <<"+">>, <<"1">>>>

-----------------------------------------------------------------------------
(* The two lexemes of '-' *)

MinusRunes == {"-", "2", "x", "(", ")", ",", "+", " "}
MinusInputs == UNION {[1..n -> MinusRunes] : n \in 1..MaxLen}

\* (a '-' with a negative operand on its right is no shift: one build stands
\* for both)
InitMinus == InitWith((X :> 1), <<NumOf(5)>>, NoFuncs) /\ arch = "amd64"

\* the caller parses one input
NextMinus ==
  \/ (input = <<>> /\ \E s \in MinusInputs : ParseCall(s))
  \/ TokenizeStep
  \/ ParseToken
  \/ ParseReturn

SpecMinus == InitMinus /\ [][NextMinus]_vv

\* the position (from 1) of the k-th '-' of the input Parse has made
MinusAt(k) == CHOOSE i \in 1..Len(input) : input[i] = "-" /\ CountOf(input, "-", i) = k

\* the rune before position i that is no space (Parse has put a '(' first)
RuneBefore(i) ==
  input[CHOOSE j \in 1..(i - 1) :
          input[j] # " " /\ \A m \in (j + 1)..(i - 1) : input[m] = " "]

\* the lexemes of '-' among the tokens made so far
MinusTokens == SelectSeq(tokens, LAMBDA t : t \in {<<"-">>, <<"-", "u">>})

\* C20: tokenize makes one lexeme of every '-' it passes: "-u" when the
\* '-' stands at the start of the input or after an operator (another '-'
\* too), '(' or ',' and "-" when it stands after a number, an identifier
\* or ')', whitespace apart; after either a value is expected.
MinusLexemes ==
  /\ Len(MinusTokens) = CountOf(input, "-", pos)
  /\ \A k \in 1..Len(MinusTokens) :
       MinusTokens[k] =
         IF RuneBefore(MinusAt(k)) \in {"(", ",", "+", "-"} THEN <<"-", "u">>
         ELSE <<"-">>
  /\ (pc = "tokenize" /\ pos >= 1 /\ input[pos] = "-") => expectVal

\* tokenize has made 2, -, -u, x of "2--x"
MinusWitness ==
  /\ src = <<"2", "-", "-", "x">>
  /\ tokens = <<<<"(">>, <<"2">>, <<"-">>, <<"-", "u">>, <<"x">>, <<")">>>>

-----------------------------------------------------------------------------
(* The longest operator *)

MunchRunes == {"2", ">", "=", "&", "!", "$", " "}
MunchInputs == UNION {[1..n -> MunchRunes] : n \in 1..MaxLen}

InitMunch == InitWith(NoVars, <<>>, NoFuncs) /\ arch = "amd64"

\* the caller parses one input and evaluates the tree
NextMunch ==
  \/ (input = <<>> /\ \E s \in MunchInputs : ParseCall(s))
  \/ TokenizeStep
  \/ ParseToken
  \/ ParseReturn
  \/ (evald = 0 /\ EvalCall(1))

SpecMunch == InitMunch /\ [][NextMunch]_vv

\* the end (from 0) of the run of operator characters that starts at pos
RECURSIVE OpRunEnd(_)
OpRunEnd(p) ==
  IF p < Len(input) /\ isOpRune(RuneAt(input, p)) THEN OpRunEnd(p + 1) ELSE p

\* the lengths of the prefixes of that run that are lexemes of the table
LexemeLens == {n \in 1..(OpRunEnd(pos) - pos) :
                 SubSeq(input, pos + 1, pos + n) \in DOMAIN opsMap}

LongestLexeme == CHOOSE n \in LexemeLens : \A m \in LexemeLens : m <= n

\* a token that is no number, no identifier, no parenthesis and no comma
IsOpToken(t) == ~IsNumber(t[1]) /\ ~IsLetter(t[1]) /\ t[1] \notin {"(", ")", ","}

-----------------------------------------------------------------------------
(* The empty input *)

BlankRunes == {" ", "x", ","}
BlankInputs == UNION {[1..n -> BlankRunes] : n \in 0..MaxLen}

InitBlank == InitWith(NoVars, <<>>, NoFuncs) /\ arch = "amd64"

\* the caller parses one input and evaluates the tree
NextBlank ==
  \/ (input = <<>> /\ \E s \in BlankInputs : ParseCall(s))
  \/ TokenizeStep
  \/ ParseToken
  \/ ParseReturn
  \/ (evald = 0 /\ EvalCall(1))

SpecBlank == InitBlank /\ [][NextBlank]_vv

\* the input given to Parse is empty or holds nothing but whitespace
Blank == \A i \in 1..Len(src) : IsSpace(src[i])

\* C22: Parse of the empty string, and of a string of whitespace, returns
\* a tree and no error and puts nothing in the variable map; Eval of the
\* tree is 0.
EmptyInputIsZero ==
  (Returns /\ Blank) =>
    /\ err = NoErr
    /\ result # Nil
    /\ Len(trees) = 1
    /\ vars = NoVars
    /\ cells = <<>>
    /\ evald = 1 => ret = [v |-> Zero, panic |-> FALSE]

\* the tree of "" has been evaluated
EmptyInputWitness ==
  /\ Returns
  /\ src = <<>>
  /\ err = NoErr
  /\ evald = 1
  /\ ret.v = Zero

-----------------------------------------------------------------------------
(* A '-' after '+' and after '-' *)

SignedOperands == {"1", "2", "3"}
SignedInputs ==
  {<<a, o, "-", b>> : a \in SignedOperands, o \in {"+", "-"}, b \in SignedOperands}

InitSigned == InitWith(NoVars, <<>>, NoFuncs) /\ arch = "amd64"

\* the caller parses one formula "a+-b" or "a--b" and evaluates the tree
NextSigned ==
  \/ (input = <<>> /\ \E s \in SignedInputs : ParseCall(s))
  \/ TokenizeStep
  \/ ParseToken
  \/ ParseReturn
  \/ (evald = 0 /\ EvalCall(1))

SpecSigned == InitSigned /\ [][NextSigned]_vv

\* C23 (as the spec states it): the trees of "2+-3" and of "2--3" both
\* evaluate to -1.
BothMinusOne ==
  (evald = 1 /\ src \in {<<"2", "+", "-", "3">>, <<"2", "-", "-", "3">>}) =>
    ret = [v |-> NumOf(-1), panic |-> FALSE]

\* C23: the second '-' of "a+-b" and of "a--b" is the prefix minus of b, so
\* the tree of "a+-b" evaluates to a - b and the tree of "a--b" to a + b:
\* "2+-3" is -1 and "2--3" is 5.
PrefixMinusValue ==
  /\ (pc = "parse" /\ ti = 0) =>
       tokens = <<<<"(">>, <<src[1]>>, <<src[2]>>, <<"-", "u">>, <<src[4]>>, <<")">>>>
  /\ Returns => err = NoErr
  /\ evald = 1 =>
       ret = [v |-> IF src[2] = "+"
                    THEN NumOf(DigitVal[src[1]] - DigitVal[src[4]])
                    ELSE NumOf(DigitVal[src[1]] + DigitVal[src[4]]),
              panic |-> FALSE]

\* the tree of "2--3" has been evaluated to 5
PrefixMinusWitness ==
  /\ evald = 1
  /\ src = <<"2", "-", "-", "3">>
  /\ ret = [v |-> NumOf(5), panic |-> FALSE]

-----------------------------------------------------------------------------
(* Numbers and identifiers *)

KindTokens ==
  {<<"1", "2">>, <<"1", ".", "5">>, <<"1", ".", "2", ".", "3">>,
   <<"i", "n", "f">>, <<"n", "a", "n">>, <<"i", "n", "f", "i", "n", "i", "t", "y">>,
   X, Y, F}
KindInputs == KindTokens \cup {a \o <<"+">> \o b : a \in KindTokens, b \in KindTokens}

InitKind == InitWith((X :> 1), <<NumOf(5)>>, (F :> "plusone")) /\ arch = "amd64"

\* the caller parses one input
NextKind ==
  \/ (input = <<>> /\ \E s \in KindInputs : ParseCall(s))
  \/ TokenizeStep
  \/ ParseToken
  \/ ParseReturn

SpecKind == InitKind /\ [][NextKind]_vv

\* C24: the class tokenize gave a token decides the node Parse pushes for
\* it: a token that starts with a digit is pushed as a constant and makes
\* no variable; an identifier that is no key of the function map is pushed
\* as the cell the variable map holds for it, which is made with value 0 and
\* put in the map when the name is not there.
TokenClassDecidesKind ==
  [][(pc = "parse" /\ ti < Len(tokens) /\ pc' = "parse") =>
       LET t == tokens[ti + 1]
       IN /\ IsNumber(t[1]) =>
               /\ Len(es') = Len(es) + 1
               /\ PeekExpr(es').k = "const"
               /\ vars' = vars /\ cells' = cells
          /\ (IsLetter(t[1]) /\ t \notin DOMAIN funcs) =>
               /\ t \in DOMAIN vars'
               /\ es' = Append(es, varExpr(vars'[t]))
               /\ \A name \in DOMAIN vars : vars'[name] = vars[name]
               /\ IF t \in DOMAIN vars THEN cells' = cells
                  ELSE cells' = Append(cells, Zero) /\ vars'[t] = Len(cells')]_vv

-----------------------------------------------------------------------------
(* What a failed Parse leaves *)

\* C25: when Parse returns an error the caller's variable map holds the
\* keys and the cells it held before the call: no variable of the rejected
\* input has been put in it (under SpecAny the map before the call is that
\* of InitAny).
FailedParseNoEffect ==
  (Returns /\ err # NoErr) => (vars = (X :> 1) /\ cells = <<NumOf(5)>>)

-----------------------------------------------------------------------------
(* The two stacks of Parse *)

\* the number of entries of the stack that are equal to x
Occurrences(stack, x) == Cardinality({i \in 1..Len(stack) : stack[i] = x})

\* the entries of os above its topmost "("
AboveParen ==
  {i \in 1..Len(os) : \A j \in i..Len(os) : os[j] # <<"(">>}

\* C26: after every token of a Parse that has not failed the value stack
\* holds as many nil boundaries as the operator stack holds "(", and every
\* function name on the operator stack lies directly beneath a "(" or is
\* the top entry, pushed by the token just processed; so the loops of ")"
\* and "," pop no function name, and the bind of a call at ")" returns no
\* error.
StackDiscipline ==
  pc = "parse" =>
    /\ Occurrences(es, Nil) = Occurrences(os, <<"(">>)
    /\ \A i \in 1..Len(os) :
         os[i] \in DOMAIN funcs =>
           \/ i < Len(os) /\ os[i + 1] = <<"(">>
           \/ i = Len(os) /\ expectArgs /\ ti >= 1 /\ tokens[ti] = os[i]
    /\ (ti < Len(tokens) /\ ~expectArgs /\ tokens[ti + 1] \in {<<")">>, <<",">>}) =>
         /\ \A i \in AboveParen : os[i] \notin DOMAIN funcs
         /\ LET f == foldToParen(os, es, funcs, envs)
                o1 == PopRest(f.os)
            IN (/\ tokens[ti + 1] = <<")">> /\ f.err = NoErr /\ Len(f.os) > 0
                /\ Len(o1) > 0 /\ Peek(o1) \in DOMAIN funcs) =>
                 /\ bind(Peek(o1), funcs, f.es, f.envs).err = NoErr
                 /\ closeParen(os, es, funcs, envs).err = NoErr

\* Parse is at the ")" of "f(x)": f lies beneath the "(" of its arguments
StackWitness ==
  /\ pc = "parse"
  /\ src = <<"f", "(", "x", ")">>
  /\ ti = 4
  /\ os = <<<<"(">>, F, <<"(">>>>
  /\ es = <<Nil, Nil, varExpr(1)>>

-----------------------------------------------------------------------------
(* An operand that follows an operand *)

JuxtaFirsts == {<<"2">>, X, <<"(", "1", ")">>}
JuxtaSeconds ==
  {<<"(", "3", ")">>, <<"(", "x", ")">>, <<"!", "3">>, <<"~", "3">>, <<"!">>, <<"~">>}
JuxtaInputs == {a \o b : a \in JuxtaFirsts, b \in JuxtaSeconds}

InitJuxta == InitWith((X :> 1), <<NumOf(5)>>, NoFuncs) /\ arch = "amd64"

\* the caller parses one input
NextJuxta ==
  \/ (input = <<>> /\ \E s \in JuxtaInputs : ParseCall(s))
  \/ TokenizeStep
  \/ ParseToken
  \/ ParseReturn

SpecJuxta == InitJuxta /\ [][NextJuxta]_vv

\* C27: Parse returns an error for an input in which two operands stand
\* next to each other with no binary operator and no comma between them: a
\* number, a variable or a ")" followed by "(" or by a unary operator with
\* its operand ("2(3)", "x(3)", "(1)(2)", "2!3"), or an operand followed by
\* a unary operator that has none ("2!").
JuxtaposedOperandsFail ==
  (Returns /\ src \in JuxtaInputs) => (err # NoErr /\ result = Nil)

-----------------------------------------------------------------------------
(* The remainder of integers *)

RemDividends == {<<c>> : c \in Digits} \cup {<<"-", c>> : c \in Digits}
RemDivisors == {<<c>> : c \in Digits \ {"0"}}
RemInputs == {a \o <<"%">> \o b : a \in RemDividends, b \in RemDivisors}

InitRem == InitWith(NoVars, <<>>, NoFuncs) /\ arch = "amd64"

\* the caller parses one formula "a%b" and evaluates the tree
NextRem ==
  \/ (input = <<>> /\ \E s \in RemInputs : ParseCall(s))
  \/ TokenizeStep
  \/ ParseToken
  \/ ParseReturn
  \/ (evald = 0 /\ EvalCall(1))

SpecRem == InitRem /\ [][NextRem]_vv

\* the integer written by a dividend or a divisor of RemInputs
RemValue(t) == IF t[1] = "-" THEN -DigitVal[t[2]] ELSE DigitVal[t[1]]

\* the remainder of the integer division of a by b that truncates: it has
\* the sign of a or is 0, and is smaller than b in absolute value
TruncRem(a, b) ==
  LET m == (IF a < 0 THEN -a ELSE a) % (IF b < 0 THEN -b ELSE b)
  IN IF a < 0 THEN -m ELSE m

\* C28: for integers a and b, b not 0, "a % b" evaluates to the remainder
\* of the division of a by b that truncates the quotient: 9 % 4 is 1,
\* -9 % 8 is -1, 7 % 4 is 3.
RemainderTruncates ==
  evald = 1 =>
    \A a \in RemDividends, b \in RemDivisors :
      src = a \o <<"%">> \o b =>
        ret = [v |-> NumOf(TruncRem(RemValue(a), RemValue(b))), panic |-> FALSE]

-----------------------------------------------------------------------------
(* Termination *)

MaxInput == 3
TermRunes == {" ", "2", ".", "-", "f", "_", "(", ")", ",", "+"}
TermInputs == UNION {[1..n -> TermRunes] : n \in 0..MaxInput}

InitTerm == InitWith(NoVars, <<>>, (F :> "plusone")) /\ arch = "amd64"

\* the caller parses one input
NextTerm ==
  \/ (input = <<>> /\ \E s \in TermInputs : ParseCall(s))
  \/ TokenizeStep
  \/ ParseToken
  \/ ParseReturn

SpecTerm == InitTerm /\ [][NextTerm]_vv

\* Parse is an ordinary function: once it is called each step of it is taken
SpecTermLive ==
  SpecTerm /\ WF_vv(TokenizeStep) /\ WF_vv(ParseToken) /\ WF_vv(ParseReturn)

\* C29: tokenize and Parse terminate on every input: an iteration of the
\* loop of tokenize returns an error or moves the position on by at least
\* one rune, never past the end; Parse takes the tokens one by one, its
\* loops take entries off the operator stack (a token leaves at most one
\* entry more on it, a ")" at least one entry less), and every call of Parse
\* returns, with a tree or with an error.
ParseTerminates ==
  /\ [][pc = "tokenize" =>
          \/ pc' = "idle" /\ err' # NoErr
          \/ pos' > pos /\ pos' <= Len(input)]_vv
  /\ [][pc = "parse" =>
          \/ pc' = "idle"
          \/ /\ ti' = ti + 1
             /\ Len(os') <= Len(os) + 1
             /\ tokens[ti + 1] = <<")">> => Len(os') < Len(os)]_vv
  /\ (pc # "idle") ~>
       (pc = "idle" /\ ((err = NoErr /\ result # Nil) \/ (err # NoErr /\ result = Nil)))

\* Parse("f(2") has returned: tokenize has passed the four tokens and the
\* final loop has met the "(" left on the stack
TermWitness ==
  /\ Returns
  /\ src = <<"f", "(", "2">>
  /\ pos = Len(input)
  /\ ti = Len(tokens)
  /\ err = ErrParen

====
